---- MODULE Spec2Model ----
(***************************************************************************)
(* Cross-filter state model of the Netflix Universe Explorer dashboard     *)
(* (src/src/App.tsx and the chart components that write back to it).       *)
(*                                                                         *)
(* The state is the React state of App: the loaded datasets, the loading   *)
(* flag and the filter dimensions.  Every event handler is one action: the *)
(* state updates a handler queues are applied together by React before the *)
(* next render, so a handler is atomic.  The derived views (useMemo) are   *)
(* operators over the state.                                               *)
(*                                                                         *)
(* Encoding of JavaScript values:                                          *)
(*   string | null      a string, null is Null                             *)
(*   number | null      <<>> for null, <<n>> for the number n              *)
(*   [lo, hi] | null    <<>> for null, <<lo, hi>> for the range            *)
(*   T[] | null         a record [isNull, rows]                            *)
(***************************************************************************)
EXTENDS Integers, Sequences, FiniteSets, TLC

VARIABLES
    genreByYear,      \* App.tsx:78
    ratingDist,       \* App.tsx:79
    moviesRuntime,    \* App.tsx:80
    tvSeasons,        \* App.tsx:81
    countryByYear,    \* App.tsx:82
    contentAge,       \* App.tsx:83
    loading,          \* App.tsx:84
    actorNodes,       \* App.tsx:100
    actorEdges,       \* App.tsx:101
    typeFilter,       \* App.tsx:87
    yearRange,        \* App.tsx:88
    selectedGenres,   \* App.tsx:89
    ratingGroups,     \* App.tsx:90
    movieYRange,      \* App.tsx:93
    tvYRange,         \* App.tsx:94
    selectedCountry,  \* App.tsx:97
    focusedActor,     \* App.tsx:102
    ageBucket,        \* App.tsx:105
    focus,            \* ActorGalaxy local state (part_001:45)
    minWeight,        \* ActorGalaxy local state (part_001:44)
    loadState,        \* the promise of the load effect: pending, resolved, rejected
    requests,         \* the seven fetches of the load effect: pending, ok, failed
    settersRun,       \* how many setters of the load's continuation have run
    yearEffectPending,\* the yearRange effect (App.tsx:151) is scheduled, not yet run
    lastOp            \* the handler that ran last

dataVars == <<genreByYear, ratingDist, moviesRuntime, tvSeasons, countryByYear,
              contentAge, loading, actorNodes, actorEdges, loadState, requests,
              settersRun>>

filterVars == <<typeFilter, yearRange, selectedGenres, ratingGroups, movieYRange,
                tvYRange, selectedCountry, focusedActor, ageBucket>>

chartVars == <<focus, minWeight>>

vars == <<dataVars, filterVars, chartVars, yearEffectPending, lastOp>>

(***************************************************************************)
(* Bounds and program constants                                            *)
(***************************************************************************)

\* Longest dataset a fetch returns in the model.
MaxRecords == 2

DefaultMinYear == 1990
DefaultMaxYear == 2021
DefaultMinWeight == 2
SliderMinWeight == 1
SliderMaxWeight == 6

Null == "null"
NoNumber == <<>>
NoRange == <<>>

TYPES == <<"All", "Movie", "TV Show">>
RATINGS == <<"Kids", "Teen", "Adult", "Other">>

\* The bucket keys are written with a hyphen here; the source uses an en dash.
BUCKETS == <<
    [key |-> "0-1y",   lo |-> 0,  hi |-> 1],
    [key |-> "2-4y",   lo |-> 2,  hi |-> 4],
    [key |-> "5-9y",   lo |-> 5,  hi |-> 9],
    [key |-> "10-19y", lo |-> 10, hi |-> 19],
    [key |-> "20y+",   lo |-> 20, hi |-> 200] >>

(***************************************************************************)
(* JavaScript helpers                                                      *)
(***************************************************************************)

Range(s) == {s[i] : i \in 1..Len(s)}

\* Array.prototype.includes
Includes(arr, x) == \E i \in 1..Len(arr) : arr[i] = x

\* Truthiness of a string | null: null and "" are falsy.
Truthy(s) == s # Null /\ s # ""

\* x != null for a number | null
NotNull(n) == n # NoNumber

\* ToNumber of a number | null, as the relational operators apply it: null is 0.
ToNumber(n) == IF n = NoNumber THEN 0 ELSE n[1]

SetMin(S) == CHOOSE x \in S : \A y \in S : x <= y
SetMax(S) == CHOOSE x \in S : \A y \in S : x >= y

\* All sequences over S of length at most n.
SeqsUpTo(S, n) == UNION {[1..k -> S] : k \in 0..n}

(***************************************************************************)
(* Inputs: the records the fetched JSON documents may hold                 *)
(***************************************************************************)

\* GenreYearRec (App.tsx:18); the field total is read nowhere and left out.
GenreYearRecs == {
    [release_year |-> 2015, genres |-> "Comedy", type |-> "Movie",   count |-> 10],
    [release_year |-> 2015, genres |-> "Drama",  type |-> "Movie",   count |-> 5],
    [release_year |-> 2016, genres |-> "Comedy", type |-> "TV Show", count |-> 5],
    [release_year |-> 2016, genres |-> "Drama",  type |-> "TV Show", count |-> 7] }

\* MovieRuntimeRec (App.tsx:30); the title is read by no filter and left out.
MovieRecs == {
    [release_year |-> 2015, runtime_min |-> <<90>>, rating_group |-> "Kids",
     primary_genre |-> "Comedy", primary_country |-> "France"],
    [release_year |-> 2016, runtime_min |-> NoNumber, rating_group |-> "Teen",
     primary_genre |-> "Drama", primary_country |-> "India"],
    [release_year |-> 2016, runtime_min |-> <<120>>, rating_group |-> "Adult",
     primary_genre |-> Null, primary_country |-> Null] }

\* TVSeasonsRec (App.tsx:38)
TVRecs == {
    [release_year |-> 2015, seasons |-> <<1>>, rating_group |-> "Kids",
     primary_genre |-> "Comedy", primary_country |-> "France"],
    [release_year |-> 2016, seasons |-> NoNumber, rating_group |-> "Teen",
     primary_genre |-> "Drama", primary_country |-> "India"],
    [release_year |-> 2016, seasons |-> <<3>>, rating_group |-> "Other",
     primary_genre |-> Null, primary_country |-> Null] }

\* ContentAgeRec (App.tsx:53, RadialAgeClock.tsx:5)
AgeRecs == {
    [type |-> "Movie",   release_year |-> 2015, age_years |-> 1,
     primary_genre |-> "Comedy"],
    [type |-> "TV Show", release_year |-> 2016, age_years |-> 3,
     primary_genre |-> Null],
    [type |-> "Movie",   release_year |-> 2016, age_years |-> -1,
     primary_genre |-> "Drama"] }

\* ContentAgeRec: records at the ends of the buckets, among them ages at and
\* above the upper end of the last bucket.
BucketAgeRecs == {
    [type |-> "Movie", release_year |-> 2015, age_years |-> a,
     primary_genre |-> "Comedy"] : a \in {1, 2, 19, 200, 201} }

\* CountryYearRec (App.tsx:46)
CountryRecs == {
    [release_year |-> 2015, country |-> "France", count |-> 3],
    [release_year |-> 2016, country |-> "India",  count |-> 4],
    [release_year |-> 2016, country |-> "France", count |-> 2] }

\* ActorNode and ActorEdge (App.tsx:51-52): the fields the galaxy's filter reads.
\* Actor a4 is on no edge.
NetNodes == << [id |-> "a1"], [id |-> "a2"], [id |-> "a3"], [id |-> "a4"] >>
EdgeRecs == {
    [source |-> "a1", target |-> "a2", weight |-> 1],
    [source |-> "a2", target |-> "a3", weight |-> 3],
    [source |-> "a1", target |-> "a3", weight |-> 6] }

\* The datasets every load returns when it is not the dataset under study.
BaseGenreByYear == <<
    [release_year |-> 2015, genres |-> "Comedy", type |-> "Movie",   count |-> 10],
    [release_year |-> 2016, genres |-> "Drama",  type |-> "TV Show", count |-> 7] >>
BaseRatingDist == << [type |-> "Movie", rating_group |-> "Kids", count |-> 1] >>
BaseMovies == <<
    [release_year |-> 2015, runtime_min |-> <<90>>, rating_group |-> "Kids",
     primary_genre |-> "Comedy", primary_country |-> "France"] >>
BaseTV == <<
    [release_year |-> 2016, seasons |-> <<3>>, rating_group |-> "Other",
     primary_genre |-> Null, primary_country |-> Null] >>
BaseCountry == << [release_year |-> 2015, country |-> "France", count |-> 3] >>
BaseNodes == << [id |-> "a1"], [id |-> "a2"] >>
BaseEdges == << [source |-> "a1", target |-> "a2", weight |-> 2] >>
BaseAge == [isNull |-> FALSE, rows |-> <<
    [type |-> "Movie", release_year |-> 2015, age_years |-> 1,
     primary_genre |-> "Comedy"] >>]

\* What the seven requests of one load resolve to (App.tsx:116): g, r, m, t, c,
\* net and ca.
BaseLoad == [g |-> BaseGenreByYear, r |-> BaseRatingDist, m |-> BaseMovies,
             t |-> BaseTV, c |-> BaseCountry, nodes |-> BaseNodes,
             edges |-> BaseEdges, ca |-> BaseAge]

GenreLoads == {[BaseLoad EXCEPT !.g = d] : d \in SeqsUpTo(GenreYearRecs, MaxRecords)}
MovieLoads == {[BaseLoad EXCEPT !.m = d] : d \in SeqsUpTo(MovieRecs, MaxRecords)}
TVLoads    == {[BaseLoad EXCEPT !.t = d] : d \in SeqsUpTo(TVRecs, MaxRecords)}
CountryLoads == {[BaseLoad EXCEPT !.c = d] : d \in SeqsUpTo(CountryRecs, MaxRecords)}
NetLoads     == {[BaseLoad EXCEPT !.nodes = NetNodes, !.edges = d] :
                    d \in SeqsUpTo(EdgeRecs, MaxRecords)}
BucketLoads ==
    {[BaseLoad EXCEPT !.ca = [isNull |-> FALSE, rows |-> d]] :
        d \in SeqsUpTo(BucketAgeRecs, MaxRecords)}
\* The optional document resolves to null when it is missing (App.tsx:113).
AgeLoads   ==
    {[BaseLoad EXCEPT !.ca = [isNull |-> FALSE, rows |-> d]] :
        d \in SeqsUpTo(AgeRecs, MaxRecords)}
    \cup {[BaseLoad EXCEPT !.ca = [isNull |-> TRUE, rows |-> <<>>]]}

(***************************************************************************)
(* Derived lists and views (useMemo)                                       *)
(***************************************************************************)

AllGenresOf(gby) == {gby[i].genres : i \in 1..Len(gby)}
allGenres == AllGenresOf(genreByYear)

\* Mutant: the lower bound taken with Math.max.
MinYearOf_Max(gby) ==
    IF Len(gby) > 0 THEN SetMax({gby[i].release_year : i \in 1..Len(gby)})
    ELSE DefaultMinYear
MinYearOf(gby) ==
    IF Len(gby) > 0 THEN SetMin({gby[i].release_year : i \in 1..Len(gby)})
    ELSE DefaultMinYear
MaxYearOf(gby) ==
    IF Len(gby) > 0 THEN SetMax({gby[i].release_year : i \in 1..Len(gby)})
    ELSE DefaultMaxYear
minYear == MinYearOf(genreByYear)
maxYear == MaxYearOf(genreByYear)

TypeOk(d, tf) == tf = "All" \/ d.type = tf
YearOk(d, yr) == d.release_year >= yr[1] /\ d.release_year <= yr[2]

\* Mutant: the empty selection matches nothing.
GenreYearGenreOk_NoEmptyCase(d, sel) == Includes(sel, d.genres)
\* selectedGenres.length === 0 || selectedGenres.includes(d.genres)
GenreYearGenreOk(d, sel) == Len(sel) = 0 \/ Includes(sel, d.genres)

\* Mutant: the empty selection matches nothing.
PrimaryGenreOk_NoEmptyCase(d, sel) ==
    Truthy(d.primary_genre) /\ Includes(sel, d.primary_genre)
\* selectedGenres.length === 0 ||
\*   (d.primary_genre && selectedGenres.includes(d.primary_genre))
PrimaryGenreOk(d, sel) ==
    Len(sel) = 0 \/ (Truthy(d.primary_genre) /\ Includes(sel, d.primary_genre))

\* Mutant: the empty rating set matches everything, as the genre set does.
RatingOk_EmptyIsAll(d, rg) == Len(rg) = 0 \/ Includes(rg, d.rating_group)
RatingOk(d, rg) == Includes(rg, d.rating_group)

\* Mutant: the country is not tested.
CountryOk_Any(d, country) == TRUE
\* selectedCountry ? d.primary_country === selectedCountry : true
CountryOk(d, country) ==
    IF Truthy(country) THEN d.primary_country = country ELSE TRUE

\* Mutant: the lower end of the range is exclusive.
BrushOk_OpenLow(metric, range) ==
    IF range # NoRange
    THEN ToNumber(metric) > range[1] /\ ToNumber(metric) <= range[2]
    ELSE TRUE
\* range ? metric >= range[0] && metric <= range[1] : true
BrushOk(metric, range) ==
    IF range # NoRange
    THEN ToNumber(metric) >= range[1] /\ ToNumber(metric) <= range[2]
    ELSE TRUE

FilteredGenreByYearOf(gby, tf, yr, sel) ==
    SelectSeq(gby, LAMBDA d : TypeOk(d, tf) /\ YearOk(d, yr) /\ GenreYearGenreOk(d, sel))
filteredGenreByYear ==
    FilteredGenreByYearOf(genreByYear, typeFilter, yearRange, selectedGenres)

\* Mutant: the rows are counted, not their count fields summed.
RECURSIVE SumCount_Rows(_)
SumCount_Rows(rows) ==
    IF Len(rows) = 0 THEN 0 ELSE 1 + SumCount_Rows(Tail(rows))
RECURSIVE SumCount(_)
SumCount(rows) ==
    IF Len(rows) = 0 THEN 0 ELSE rows[1].count + SumCount(Tail(rows))
totalTitles == SumCount(filteredGenreByYear)

\* Mutant: no test that the runtime is present.
MoviePasses_NoNullTest(d, yr, sel, rg, country, range) ==
    /\ YearOk(d, yr)
    /\ PrimaryGenreOk(d, sel)
    /\ RatingOk(d, rg)
    /\ CountryOk(d, country)
    /\ BrushOk(d.runtime_min, range)
MoviePasses(d, yr, sel, rg, country, range) ==
    /\ NotNull(d.runtime_min)
    /\ YearOk(d, yr)
    /\ PrimaryGenreOk(d, sel)
    /\ RatingOk(d, rg)
    /\ CountryOk(d, country)
    /\ BrushOk(d.runtime_min, range)
FilteredMoviesOf(movies, yr, sel, rg, country, range) ==
    SelectSeq(movies, LAMBDA d : MoviePasses(d, yr, sel, rg, country, range))
filteredMovies ==
    FilteredMoviesOf(moviesRuntime, yearRange, selectedGenres, ratingGroups,
                     selectedCountry, movieYRange)

\* Mutant: no TV record passes while the type filter is Movie.
TVPasses_HiddenForMovies(d, yr, sel, rg, country, range) ==
    /\ typeFilter # "Movie"
    /\ NotNull(d.seasons)
    /\ YearOk(d, yr)
    /\ PrimaryGenreOk(d, sel)
    /\ RatingOk(d, rg)
    /\ CountryOk(d, country)
    /\ BrushOk(d.seasons, range)
TVPasses(d, yr, sel, rg, country, range) ==
    /\ NotNull(d.seasons)
    /\ YearOk(d, yr)
    /\ PrimaryGenreOk(d, sel)
    /\ RatingOk(d, rg)
    /\ CountryOk(d, country)
    /\ BrushOk(d.seasons, range)
FilteredTVOf(tv, yr, sel, rg, country, range) ==
    SelectSeq(tv, LAMBDA d : TVPasses(d, yr, sel, rg, country, range))
filteredTV ==
    FilteredTVOf(tvSeasons, yearRange, selectedGenres, ratingGroups,
                 selectedCountry, tvYRange)

\* RadialAgeClock: raw = data ?? [], hasData, filtered
AgeRaw(ca) == IF ca.isNull THEN <<>> ELSE ca.rows
BucketOf(key) == CHOOSE i \in 1..Len(BUCKETS) : BUCKETS[i].key = key
\* Mutant: the upper end of the bucket is exclusive.
BucketOk_HalfOpen(r, bucket) ==
    IF ~Truthy(bucket) THEN TRUE
    ELSE LET b == BUCKETS[BucketOf(bucket)]
         IN  r.age_years >= b.lo /\ r.age_years < b.hi
\* bucketOk (RadialAgeClock.tsx:63-67)
BucketOk(r, bucket) ==
    IF ~Truthy(bucket) THEN TRUE
    ELSE LET b == BUCKETS[BucketOf(bucket)]
         IN  r.age_years >= b.lo /\ r.age_years <= b.hi
AgePasses(r, yr, tf, sel, bucket) ==
    /\ r.age_years >= 0
    /\ YearOk(r, yr)
    /\ TypeOk(r, tf)
    /\ PrimaryGenreOk(r, sel)
    /\ BucketOk(r, bucket)
FilteredAgeOf(raw, yr, tf, sel, bucket) ==
    SelectSeq(raw, LAMBDA r : AgePasses(r, yr, tf, sel, bucket))
filteredAge ==
    FilteredAgeOf(AgeRaw(contentAge), yearRange, typeFilter, selectedGenres, ageBucket)
hasData == Len(AgeRaw(contentAge)) > 0
\* The genres of the clock's wedges and labels (r.primary_genre ?? "Other"); a
\* dataset of the model has fewer than ten genres, so none is cut off.
topGenres ==
    {IF filteredAge[i].primary_genre = Null THEN "Other"
     ELSE filteredAge[i].primary_genre : i \in 1..Len(filteredAge)}
\* series (RadialAgeClock.tsx:81-98): BUCKETS.find(b => r.age_years >= b.lo &&
\* r.age_years <= b.hi), the index of the first bucket that holds the age, 0 for
\* undefined.
BucketFind(age) ==
    LET S == {i \in 1..Len(BUCKETS) : age >= BUCKETS[i].lo /\ age <= BUCKETS[i].hi}
    IN  IF S = {} THEN 0 ELSE SetMin(S)
\* The pivot reads b.key of the bucket found (RadialAgeClock.tsx:90): a TypeError
\* in the render of the clock when the lookup gave undefined.
SeriesThrowsOf(rows) == \E i \in 1..Len(rows) : BucketFind(rows[i].age_years) = 0
seriesThrows == SeriesThrowsOf(filteredAge)
\* The clock draws its rings unless it shows "No content-age data"
\* (RadialAgeClock.tsx:108); the panel is taken to be at least 10 px wide and high.
\* Nothing is drawn by a render that threw.
ClockDrawn == ~loading /\ hasData /\ topGenres # {} /\ ~seriesThrows

\* Mutant: an edge is kept only above the threshold.
KeepE_Strict(edges, mw) == SelectSeq(edges, LAMBDA e : e.weight > mw)
\* What the clock draws (RadialAgeClock.tsx:108-119): the text "No content-age
\* data" alone when it has no dataset or no genre to draw, else the rings and
\* wedges of the filtered records.
ClockShowsOf(ca, yr, tf, sel, bucket) ==
    LET raw == AgeRaw(ca)
        rows == FilteredAgeOf(raw, yr, tf, sel, bucket)
    IN  IF ~(Len(raw) > 0) \/ Len(rows) = 0
        THEN [text |-> "No content-age data", rows |-> <<>>]
        ELSE [text |-> "", rows |-> rows]
clockShows == ClockShowsOf(contentAge, yearRange, typeFilter, selectedGenres, ageBucket)

\* ActorGalaxy: filtered (keepE, keepN)
KeepE(edges, mw) == SelectSeq(edges, LAMBDA e : e.weight >= mw)
KeepN(nodes, edges, mw) ==
    LET used == UNION {{KeepE(edges, mw)[i].source, KeepE(edges, mw)[i].target} :
                         i \in 1..Len(KeepE(edges, mw))}
    IN  SelectSeq(nodes, LAMBDA n : n.id \in used)

\* WorldMap: totals, the map country -> count within yearRange, as a function on
\* the countries that have a record in the range.
RECURSIVE TotalsOf_Rows(_, _)
\* Mutant: every record counts one.
TotalsOf_Rows(data, yr) ==
    IF data = <<>> THEN [c \in {} |-> 0]
    ELSE LET r == data[Len(data)]
             map == TotalsOf_Rows(SubSeq(data, 1, Len(data) - 1), yr)
         IN  IF r.release_year < yr[1] \/ r.release_year > yr[2] THEN map
             ELSE [c \in DOMAIN map \cup {r.country} |->
                     (IF c \in DOMAIN map THEN map[c] ELSE 0)
                       + (IF c = r.country THEN 1 ELSE 0)]
RECURSIVE TotalsOf(_, _)
TotalsOf(data, yr) ==
    IF data = <<>> THEN [c \in {} |-> 0]
    ELSE LET r == data[Len(data)]
             map == TotalsOf(SubSeq(data, 1, Len(data) - 1), yr)
         IN  IF r.release_year < yr[1] \/ r.release_year > yr[2] THEN map
             ELSE [c \in DOMAIN map \cup {r.country} |->
                     (IF c \in DOMAIN map THEN map[c] ELSE 0)
                       + (IF c = r.country THEN r.count ELSE 0)]
totals == TotalsOf(countryByYear, yearRange)
\* The number the map shows for a country: totals.get(name) || 0
CountryTotal(map, name) == IF name \in DOMAIN map THEN map[name] ELSE 0

\* The requests of the load effect (App.tsx:112-124): the six documents the
\* application needs and the optional content-age document.
Required == {"g", "r", "m", "t", "c", "net"}
Requests == Required \cup {"ca"}

(***************************************************************************)
(* State after construction (useState initial values)                      *)
(***************************************************************************)

Init ==
    /\ genreByYear = <<>>
    /\ ratingDist = <<>>
    /\ moviesRuntime = <<>>
    /\ tvSeasons = <<>>
    /\ countryByYear = <<>>
    /\ contentAge = [isNull |-> TRUE, rows |-> <<>>]
    /\ loading = TRUE
    /\ actorNodes = <<>>
    /\ actorEdges = <<>>
    /\ typeFilter = "All"
    /\ yearRange = <<DefaultMinYear, DefaultMaxYear>>
    /\ selectedGenres = <<>>
    /\ ratingGroups = RATINGS
    /\ movieYRange = NoRange
    /\ tvYRange = NoRange
    /\ selectedCountry = Null
    /\ focusedActor = Null
    /\ ageBucket = Null
    /\ focus = Null
    /\ minWeight = DefaultMinWeight
    /\ loadState = "pending"
    /\ requests = [i \in Requests |-> "pending"]
    /\ settersRun = 0
    /\ yearEffectPending = FALSE
    /\ lastOp = "init"

(***************************************************************************)
(* Loading (App.tsx:108-136) and the yearRange effect (App.tsx:151-153)    *)
(***************************************************************************)

\* Mutant: loading is cleared before the datasets are stored.
Setters_LoadingFirst ==
    << "setLoading", "setGenreByYear", "setRatingDist", "setMoviesRuntime",
       "setTvSeasons", "setCountryByYear", "setActorNodes", "setActorEdges",
       "setContentAge" >>
\* The setters the continuation of the load calls, in their order (App.tsx:126-134).
Setters ==
    << "setGenreByYear", "setRatingDist", "setMoviesRuntime", "setTvSeasons",
       "setCountryByYear", "setActorNodes", "setActorEdges", "setContentAge",
       "setLoading" >>

\* All seven requests have resolved: the continuation after the await stores the
\* documents and clears loading.  Loads is the set of results the requests may
\* bring.  The commit schedules the yearRange effect, which runs after the render.
LoadResolve(Loads) ==
    /\ loadState = "pending"
    /\ \E in \in Loads :
        /\ genreByYear' = in.g
        /\ ratingDist' = in.r
        /\ moviesRuntime' = in.m
        /\ tvSeasons' = in.t
        /\ countryByYear' = in.c
        /\ actorNodes' = in.nodes
        /\ actorEdges' = in.edges
        /\ contentAge' = in.ca
        /\ requests' = [i \in Requests |->
                           IF i = "ca" /\ in.ca.isNull THEN "failed" ELSE "ok"]
    /\ loading' = FALSE
    /\ loadState' = "resolved"
    /\ settersRun' = Len(Setters)
    /\ yearEffectPending' = TRUE
    /\ lastOp' = "load"
    /\ UNCHANGED <<filterVars, chartVars>>

\* A required request failed: Promise.all rejects, the continuation never runs.
LoadReject ==
    /\ loadState = "pending"
    /\ \E i \in Required : requests' = [requests EXCEPT ![i] = "failed"]
    /\ loadState' = "rejected"
    /\ lastOp' = "loadFailed"
    /\ UNCHANGED <<genreByYear, ratingDist, moviesRuntime, tvSeasons, countryByYear,
                   contentAge, loading, actorNodes, actorEdges, settersRun, filterVars,
                   chartVars, yearEffectPending>>

\* Mutant: no failed request rejects the load.
Rejects_Never(i, outcome) == FALSE
\* Mutant: a failed content-age request rejects the load as well.
Rejects_AgeToo(i, outcome) == outcome = "failed"
\* Whether the outcome of request i rejects the promise awaited by the load: a
\* failed fetch or parse of a required document rejects Promise.all, while
\* fetchContentAge turns a non-OK response and any failure into null
\* (App.tsx:112-114) and so never rejects.
Rejects(i, outcome) == i \in Required /\ outcome = "failed"

\* One request completes: it delivers its document (ok) or fails (network error,
\* unparsable body; for the content-age request also a non-OK response).  The
\* first rejection rejects the load; the other requests still run to their end.
RequestSettle(Is, Outcomes) ==
    /\ \E i \in Is \cap Requests, o \in Outcomes \cap {"ok", "failed"} :
        /\ requests[i] = "pending"
        /\ requests' = [requests EXCEPT ![i] = o]
        /\ loadState' = IF loadState = "pending" /\ Rejects(i, o)
                        THEN "rejected" ELSE loadState
    /\ lastOp' = "requestSettle"
    /\ UNCHANGED <<genreByYear, ratingDist, moviesRuntime, tvSeasons, countryByYear,
                   contentAge, loading, actorNodes, actorEdges, settersRun, filterVars,
                   chartVars, yearEffectPending>>

\* The continuation after the await (App.tsx:126-134): it runs once all seven
\* promises are settled and none has rejected, and stores the seven results in one
\* batch (a React root that batches the updates made outside its own event
\* handlers); ca is null exactly when the content-age request failed.
LoadContinue(Loads) ==
    /\ loadState = "pending"
    /\ settersRun = 0
    /\ \A i \in Requests : requests[i] # "pending"
    /\ \E in \in Loads :
        /\ in.ca.isNull <=> requests["ca"] = "failed"
        /\ genreByYear' = in.g
        /\ ratingDist' = in.r
        /\ moviesRuntime' = in.m
        /\ tvSeasons' = in.t
        /\ countryByYear' = in.c
        /\ actorNodes' = in.nodes
        /\ actorEdges' = in.edges
        /\ contentAge' = in.ca
    /\ loading' = FALSE
    /\ loadState' = "resolved"
    /\ settersRun' = Len(Setters)
    /\ yearEffectPending' = TRUE
    /\ lastOp' = "load"
    /\ UNCHANGED <<requests, filterVars, chartVars>>

\* The same continuation under a React root that does not batch updates made
\* after an await: every setter is followed by a render of its own, so the
\* setters are steps, in the order of App.tsx:126-134.  The result read is the
\* one the setters before have stored.
LoadSetter(Loads) ==
    /\ loadState = "pending"
    /\ \A i \in Requests : requests[i] # "pending"
    /\ settersRun < Len(Setters)
    /\ \E in \in Loads :
        LET st == Setters[settersRun + 1]
            ran == {Setters[k] : k \in 1..settersRun}
        IN  /\ in.ca.isNull <=> requests["ca"] = "failed"
            /\ "setGenreByYear" \in ran => in.g = genreByYear
            /\ "setRatingDist" \in ran => in.r = ratingDist
            /\ "setMoviesRuntime" \in ran => in.m = moviesRuntime
            /\ "setTvSeasons" \in ran => in.t = tvSeasons
            /\ "setCountryByYear" \in ran => in.c = countryByYear
            /\ "setActorNodes" \in ran => in.nodes = actorNodes
            /\ "setActorEdges" \in ran => in.edges = actorEdges
            /\ "setContentAge" \in ran => in.ca = contentAge
            /\ genreByYear' = IF st = "setGenreByYear" THEN in.g ELSE genreByYear
            /\ ratingDist' = IF st = "setRatingDist" THEN in.r ELSE ratingDist
            /\ moviesRuntime' = IF st = "setMoviesRuntime" THEN in.m ELSE moviesRuntime
            /\ tvSeasons' = IF st = "setTvSeasons" THEN in.t ELSE tvSeasons
            /\ countryByYear' = IF st = "setCountryByYear" THEN in.c ELSE countryByYear
            /\ actorNodes' = IF st = "setActorNodes" THEN in.nodes ELSE actorNodes
            /\ actorEdges' = IF st = "setActorEdges" THEN in.edges ELSE actorEdges
            /\ contentAge' = IF st = "setContentAge" THEN in.ca ELSE contentAge
            /\ loading' = IF st = "setLoading" THEN FALSE ELSE loading
            /\ yearEffectPending' = (yearEffectPending \/ st = "setGenreByYear")
    /\ settersRun' = settersRun + 1
    /\ loadState' = IF settersRun + 1 = Len(Setters) THEN "resolved" ELSE "pending"
    /\ lastOp' = "loadSetter"
    /\ UNCHANGED <<requests, filterVars, chartVars>>

\* if (genreByYear.length) setYearRange([minYear, maxYear])
YearRangeEffect ==
    /\ yearEffectPending
    /\ yearEffectPending' = FALSE
    /\ yearRange' = IF Len(genreByYear) > 0 THEN <<minYear, maxYear>> ELSE yearRange
    /\ lastOp' = "yearEffect"
    /\ UNCHANGED <<dataVars, chartVars, typeFilter, selectedGenres, ratingGroups,
                   movieYRange, tvYRange, selectedCountry, focusedActor, ageBucket>>

(***************************************************************************)
(* Filter rail (App.tsx:228-330)                                           *)
(***************************************************************************)

\* Mutant: a type button clears the genre selection as well.
SetTypeFilter_ClearsGenres(Ts) ==
    /\ \E t \in Ts \cap Range(TYPES) : typeFilter' = t
    /\ selectedGenres' = <<>>
    /\ lastOp' = "setTypeFilter"
    /\ UNCHANGED <<dataVars, chartVars, yearEffectPending, yearRange,
                   ratingGroups, movieYRange, tvYRange, selectedCountry, focusedActor,
                   ageBucket>>
\* Type buttons: setTypeFilter(t)
SetTypeFilter(Ts) ==
    /\ \E t \in Ts \cap Range(TYPES) : typeFilter' = t
    /\ lastOp' = "setTypeFilter"
    /\ UNCHANGED <<dataVars, chartVars, yearEffectPending, yearRange, selectedGenres,
                   ratingGroups, movieYRange, tvYRange, selectedCountry, focusedActor,
                   ageBucket>>

\* Lower slider: setYearRange([+e.target.value, yearRange[1]]); the input keeps
\* its value within min = minYear and max = maxYear.
SetYearLo(Vs) ==
    /\ \E v \in Vs \cap (minYear..maxYear) : yearRange' = <<v, yearRange[2]>>
    /\ lastOp' = "setYearLo"
    /\ UNCHANGED <<dataVars, chartVars, yearEffectPending, typeFilter, selectedGenres,
                   ratingGroups, movieYRange, tvYRange, selectedCountry, focusedActor,
                   ageBucket>>

\* Upper slider: setYearRange([yearRange[0], +e.target.value])
SetYearHi(Vs) ==
    /\ \E v \in Vs \cap (minYear..maxYear) : yearRange' = <<yearRange[1], v>>
    /\ lastOp' = "setYearHi"
    /\ UNCHANGED <<dataVars, chartVars, yearEffectPending, typeFilter, selectedGenres,
                   ratingGroups, movieYRange, tvYRange, selectedCountry, focusedActor,
                   ageBucket>>

\* Mutant: the rating group is appended whether or not the button is active.
RatingToggled_AlwaysAdds(prev, active, r) == Append(prev, r)
\* prev => (active ? prev.filter(x => x !== r) : [...prev, r])
RatingToggled(prev, active, r) ==
    IF active THEN SelectSeq(prev, LAMBDA x : x # r) ELSE Append(prev, r)

\* Rating group buttons; active is the button's value in the current render.
ToggleRatingGroup(Rs) ==
    /\ \E r \in Rs \cap Range(RATINGS) :
        ratingGroups' = RatingToggled(ratingGroups, Includes(ratingGroups, r), r)
    /\ lastOp' = "toggleRatingGroup"
    /\ UNCHANGED <<dataVars, chartVars, yearEffectPending, typeFilter, yearRange,
                   selectedGenres, movieYRange, tvYRange, selectedCountry,
                   focusedActor, ageBucket>>

\* Mutant: the genre is appended whether or not it is selected.
GenreToggled_AlwaysAdds(prev, g) == Append(prev, g)
\* prev => (prev.includes(g) ? prev.filter(x => x !== g) : [...prev, g])
GenreToggled(prev, g) ==
    IF Includes(prev, g) THEN SelectSeq(prev, LAMBDA x : x # g) ELSE Append(prev, g)

toggleGenre(g) ==
    /\ selectedGenres' = GenreToggled(selectedGenres, g)
    /\ UNCHANGED <<dataVars, chartVars, yearEffectPending, typeFilter, yearRange,
                   ratingGroups, movieYRange, tvYRange, selectedCountry, focusedActor,
                   ageBucket>>

\* Genre checkboxes, one for each genre of allGenres
GenreCheckbox(Gs) ==
    /\ \E g \in Gs \cap allGenres : toggleGenre(g)
    /\ lastOp' = "genreCheckbox"

\* Mutant: the age bucket is not cleared.
Reset_KeepsBucket ==
    /\ typeFilter' = "All"
    /\ yearRange' = <<minYear, maxYear>>
    /\ selectedGenres' = <<>>
    /\ ratingGroups' = RATINGS
    /\ movieYRange' = NoRange
    /\ tvYRange' = NoRange
    /\ selectedCountry' = Null
    /\ focusedActor' = Null
    /\ lastOp' = "reset"
    /\ UNCHANGED <<dataVars, chartVars, yearEffectPending, ageBucket>>
\* Reset button (App.tsx:314-324)
Reset ==
    /\ typeFilter' = "All"
    /\ yearRange' = <<minYear, maxYear>>
    /\ selectedGenres' = <<>>
    /\ ratingGroups' = RATINGS
    /\ movieYRange' = NoRange
    /\ tvYRange' = NoRange
    /\ selectedCountry' = Null
    /\ focusedActor' = Null
    /\ ageBucket' = Null
    /\ lastOp' = "reset"
    /\ UNCHANGED <<dataVars, chartVars, yearEffectPending>>

(***************************************************************************)
(* Chart callbacks; a chart is mounted only once loading is false          *)
(***************************************************************************)

\* Mutant: the heatmap is given the rows of the selected genres only.
HeatmapDataOf_GenreFiltered(gby, tf, yr) ==
    FilteredGenreByYearOf(gby, tf, yr, selectedGenres)
\* heatmap dataset (type + years only), App.tsx:156
HeatmapDataOf(gby, tf, yr) ==
    SelectSeq(gby, LAMBDA d : TypeOk(d, tf) /\ YearOk(d, yr))
heatmapData == HeatmapDataOf(genreByYear, typeFilter, yearRange)

\* GenreHeatmap: click on a y-axis label or a cell (part_000:103, 152)
HeatmapGenreClick(Gs) ==
    /\ ~loading
    /\ \E g \in Gs \cap AllGenresOf(heatmapData) : toggleGenre(g)
    /\ lastOp' = "heatmapGenreClick"

\* Math.round(num / den) for num >= 0 and den > 0: halves round up.
RoundDiv(num, den) == (2 * num + den) \div (2 * den)

\* Mutant: the years of all loaded rows, not of the rows given to the chart.
YearsOf_Unfiltered(data) ==
    LET S == {genreByYear[i].release_year : i \in 1..Len(genreByYear)}
    IN  CHOOSE ys \in [1..Cardinality(S) -> S] :
            \A i, j \in 1..Cardinality(S) : i < j => ys[i] < ys[j]
\* GenreHeatmap: years, the distinct release years of its rows in ascending order
\* (part_000:27)
YearsOf(data) ==
    LET S == {data[i].release_year : i \in 1..Len(data)}
    IN  CHOOSE ys \in [1..Cardinality(S) -> S] :
            \A i, j \in 1..Cardinality(S) : i < j => ys[i] < ys[j]

\* The first mapping of a brush end (part_000:168): a band scale has no invert, so
\* the pixel is divided by the step of the scale, w / max(1, n - 0.02) for n years
\* and inner padding 0.02, and the year at the rounded, clamped index is taken.
BandYear(px, w, years) ==
    LET n == Len(years)
        idx == IF n < 2 THEN RoundDiv(px, w)
               ELSE RoundDiv(px * (100 * n - 2), 100 * w)
        at == IF idx > n - 1 THEN n - 1 ELSE idx
    IN  years[at + 1]

\* Mutant: the year is not held within the first and the last year of the chart.
SaferYear_Unclamped(x0, w, years) ==
    years[1] + RoundDiv(x0 * (years[Len(years)] - years[1]), w)
\* The "safer mapping" (part_000:170-171), applied to the value of the first
\* mapping: round(years[0] + (x0 / w) * (last - years[0])) held within
\* years[0] and the last year.
SaferYear(x0, w, years) ==
    LET first == years[1]
        last == years[Len(years)]
        yr == first + RoundDiv(x0 * (last - first), w)
    IN  IF yr > last THEN last ELSE IF yr < first THEN first ELSE yr

\* What a brush end gives to onBrushYears (part_000:166-173): sel is NoRange for an
\* empty selection, else the two pixels of the selection; w is the plot width.
HeatmapBrushEmits(sel, w, years) ==
    IF sel = NoRange THEN NoRange
    ELSE LET yr0 == SaferYear(BandYear(sel[1], w, years), w, years)
             yr1 == SaferYear(BandYear(sel[2], w, years), w, years)
         IN  << IF yr0 < yr1 THEN yr0 ELSE yr1, IF yr0 > yr1 THEN yr0 ELSE yr1 >>

\* onBrushYears={(rng) => rng && setYearRange(rng)} (App.tsx:394): the year range
\* after the heatmap has given rng, null for an empty selection.
OnBrushYears(prev, rng) == IF rng # NoRange THEN rng ELSE prev

\* GenreHeatmap: end of a brush gesture on the year strip; the chart is drawn only
\* when it has rows (part_000:72).  onBrushYears is (rng) => rng && setYearRange(rng)
\* (App.tsx:394): null leaves yearRange as it is.
HeatmapBrushEnd(Sels, Ws) ==
    /\ ~loading
    /\ Len(heatmapData) > 0
    /\ \E sel \in Sels, w \in Ws :
        /\ sel # NoRange => sel[1] >= 0 /\ sel[1] < sel[2] /\ sel[2] <= w
        /\ yearRange' = OnBrushYears(yearRange,
                                     HeatmapBrushEmits(sel, w, YearsOf(heatmapData)))
    /\ lastOp' = "heatmapBrushEnd"
    /\ UNCHANGED <<dataVars, chartVars, yearEffectPending, typeFilter, selectedGenres,
                   ratingGroups, movieYRange, tvYRange, selectedCountry, focusedActor,
                   ageBucket>>

\* Mutant: the clicked bucket replaces the selection, never clears it.
RingClicked_Replaces(selectedBucket, key) == key
\* onSelectBucket(selectedBucket === b.key ? null : b.key)
RingClicked(selectedBucket, key) == IF selectedBucket = key THEN Null ELSE key

\* RadialAgeClock: click on a ring (RadialAgeClock.tsx:151);
\* onSelectBucket is setAgeBucket (App.tsx:379).
RingClick(Keys) ==
    /\ ClockDrawn
    /\ \E i \in 1..Len(BUCKETS) :
        /\ BUCKETS[i].key \in Keys
        /\ ageBucket' = RingClicked(ageBucket, BUCKETS[i].key)
    /\ lastOp' = "ringClick"
    /\ UNCHANGED <<dataVars, chartVars, yearEffectPending, typeFilter, yearRange,
                   selectedGenres, ratingGroups, movieYRange, tvYRange,
                   selectedCountry, focusedActor>>

\* RadialAgeClock: click on a wedge or a genre label (RadialAgeClock.tsx:210, 241)
ClockGenreClick(Gs) ==
    /\ ClockDrawn
    /\ \E g \in Gs \cap topGenres : toggleGenre(g)
    /\ lastOp' = "clockGenreClick"

\* Mutant: the setter clears the country when it is given the selected one.
SetSelectedCountry_Toggles(prev, c) == IF prev = c THEN Null ELSE c
\* setSelectedCountry, the setter of the state selectedCountry (App.tsx:97): the
\* new value replaces the previous one.
SetSelectedCountry(prev, c) == c

\* onSelectCountry(selectedCountry === name ? null : name)
MapClicked(selected, name) == IF selected = name THEN Null ELSE name

\* WorldMap: click on a country (WorldMap.tsx:88); onSelectCountry is
\* setSelectedCountry (App.tsx:408).
MapClick(Names) ==
    /\ ~loading
    /\ \E name \in Names :
        /\ Truthy(name)
        /\ selectedCountry' =
               SetSelectedCountry(selectedCountry, MapClicked(selectedCountry, name))
    /\ lastOp' = "mapClick"
    /\ UNCHANGED <<dataVars, chartVars, yearEffectPending, typeFilter, yearRange,
                   selectedGenres, ratingGroups, movieYRange, tvYRange, focusedActor,
                   ageBucket>>

\* Mutant: the two ends are passed on as they come, the upper axis value first.
BrushEmits_Unordered(sel) == sel
\* The range a brush gesture emits (TVSeasons.tsx:194-201): sel is NoRange for an
\* empty selection, else <<y0, y1>>, the rounded axis values of its two ends.
BrushEmits(sel) ==
    IF sel = NoRange THEN NoRange
    ELSE LET y0 == sel[1]
             y1 == sel[2]
             lo == IF (IF y0 < y1 THEN y0 ELSE y1) > 0
                   THEN (IF y0 < y1 THEN y0 ELSE y1) ELSE 0
             hi == IF y0 > y1 THEN y0 ELSE y1
         IN  <<lo, hi>>

\* TVSeasons: end of a brush gesture; onBrush is setTvYRange (App.tsx:440).  The
\* chart draws nothing, the brush included, when it has no rating group to show
\* (TVSeasons.tsx:49).
TVBrushEnd(Sels) ==
    /\ ~loading
    /\ Len(filteredTV) > 0
    /\ \E sel \in Sels : tvYRange' = BrushEmits(sel)
    /\ lastOp' = "tvBrushEnd"
    /\ UNCHANGED <<dataVars, chartVars, yearEffectPending, typeFilter, yearRange,
                   selectedGenres, ratingGroups, movieYRange, selectedCountry,
                   focusedActor, ageBucket>>

\* MoviesRuntime: end of a brush gesture; onBrush is setMovieYRange (App.tsx:433).
\* The chart's source is not part of the repository snapshot: its gesture is taken
\* to emit what the TV chart's does.
MovieBrushEnd(Sels) ==
    /\ ~loading
    /\ \E sel \in Sels : movieYRange' = BrushEmits(sel)
    /\ lastOp' = "movieBrushEnd"
    /\ UNCHANGED <<dataVars, chartVars, yearEffectPending, typeFilter, yearRange,
                   selectedGenres, ratingGroups, tvYRange, selectedCountry,
                   focusedActor, ageBucket>>

\* ActorGalaxy: click on a node (part_001:125); onPick is setFocusedActor
\* (App.tsx:422).  Only the nodes kept by the weight threshold are drawn.
ActorClick(Ids) ==
    /\ ~loading
    /\ \E i \in 1..Len(KeepN(actorNodes, actorEdges, minWeight)) :
        LET id == KeepN(actorNodes, actorEdges, minWeight)[i].id
            next == IF focus = id THEN Null ELSE id
        IN  /\ id \in Ids
            /\ focus' = next
            /\ focusedActor' = next
    /\ lastOp' = "actorClick"
    /\ UNCHANGED <<dataVars, minWeight, yearEffectPending, typeFilter, yearRange,
                   selectedGenres, ratingGroups, movieYRange, tvYRange,
                   selectedCountry, ageBucket>>

\* ActorGalaxy: the "Min link" slider (part_001:211)
SetMinWeight(Ws) ==
    /\ ~loading
    /\ \E w \in Ws \cap (SliderMinWeight..SliderMaxWeight) : minWeight' = w
    /\ lastOp' = "setMinWeight"
    /\ UNCHANGED <<dataVars, filterVars, focus, yearEffectPending>>

\* ActorGalaxy: the "Reset view" button (part_001:220)
ActorResetView ==
    /\ ~loading
    /\ minWeight' = DefaultMinWeight
    /\ focus' = Null
    /\ focusedActor' = Null
    /\ lastOp' = "actorResetView"
    /\ UNCHANGED <<dataVars, yearEffectPending, typeFilter, yearRange, selectedGenres,
                   ratingGroups, movieYRange, tvYRange, selectedCountry, ageBucket>>

(***************************************************************************)
(* The filter state as one value, its mutators and the views derived of it  *)
(***************************************************************************)

\* The nine filter states of App (App.tsx:87-105) as a record.
FilterState ==
    [typeFilter |-> typeFilter, yearRange |-> yearRange,
     selectedGenres |-> selectedGenres, ratingGroups |-> ratingGroups,
     movieYRange |-> movieYRange, tvYRange |-> tvYRange,
     selectedCountry |-> selectedCountry, focusedActor |-> focusedActor,
     ageBucket |-> ageBucket]

\* The filter dimension a mutator writes.
Dim(m) ==
    CASE m.op = "setTypeFilter" -> "typeFilter"
      [] m.op \in {"setYearLo", "setYearHi", "onBrushYears"} -> "yearRange"
      [] m.op = "toggleGenre" -> "selectedGenres"
      [] m.op = "toggleRatingGroup" -> "ratingGroups"
      [] m.op = "setMovieYRange" -> "movieYRange"
      [] m.op = "setTvYRange" -> "tvYRange"
      [] m.op = "mapClick" -> "selectedCountry"
      [] m.op = "setFocusedActor" -> "focusedActor"
      [] m.op = "ringClick" -> "ageBucket"

\* Mutant: setting the type clears the genre selection.
Apply_TypeClearsGenres(fs, m) ==
    CASE m.op = "setTypeFilter" ->
            [fs EXCEPT !.typeFilter = m.arg, !.selectedGenres = <<>>]
      [] m.op = "setYearLo" -> [fs EXCEPT !.yearRange = <<m.arg, fs.yearRange[2]>>]
      [] m.op = "setYearHi" -> [fs EXCEPT !.yearRange = <<fs.yearRange[1], m.arg>>]
      [] m.op = "onBrushYears" ->
            [fs EXCEPT !.yearRange = OnBrushYears(fs.yearRange, m.arg)]
      [] m.op = "toggleGenre" ->
            [fs EXCEPT !.selectedGenres = GenreToggled(fs.selectedGenres, m.arg)]
      [] m.op = "toggleRatingGroup" ->
            [fs EXCEPT !.ratingGroups =
                RatingToggled(fs.ratingGroups, Includes(fs.ratingGroups, m.arg), m.arg)]
      [] m.op = "setMovieYRange" -> [fs EXCEPT !.movieYRange = m.arg]
      [] m.op = "setTvYRange" -> [fs EXCEPT !.tvYRange = m.arg]
      [] m.op = "mapClick" ->
            [fs EXCEPT !.selectedCountry =
                SetSelectedCountry(fs.selectedCountry,
                                   MapClicked(fs.selectedCountry, m.arg))]
      [] m.op = "setFocusedActor" -> [fs EXCEPT !.focusedActor = m.arg]
      [] m.op = "ringClick" ->
            [fs EXCEPT !.ageBucket = RingClicked(fs.ageBucket, m.arg)]
\* The filter state after a mutator: what the handler of a control, or the
\* callback given to a chart, writes (App.tsx:212-214, 239, 259, 267, 283, 379,
\* 394, 408, 422, 433, 440).
Apply(fs, m) ==
    CASE m.op = "setTypeFilter" -> [fs EXCEPT !.typeFilter = m.arg]
      [] m.op = "setYearLo" -> [fs EXCEPT !.yearRange = <<m.arg, fs.yearRange[2]>>]
      [] m.op = "setYearHi" -> [fs EXCEPT !.yearRange = <<fs.yearRange[1], m.arg>>]
      [] m.op = "onBrushYears" ->
            [fs EXCEPT !.yearRange = OnBrushYears(fs.yearRange, m.arg)]
      [] m.op = "toggleGenre" ->
            [fs EXCEPT !.selectedGenres = GenreToggled(fs.selectedGenres, m.arg)]
      [] m.op = "toggleRatingGroup" ->
            [fs EXCEPT !.ratingGroups =
                RatingToggled(fs.ratingGroups, Includes(fs.ratingGroups, m.arg), m.arg)]
      [] m.op = "setMovieYRange" -> [fs EXCEPT !.movieYRange = m.arg]
      [] m.op = "setTvYRange" -> [fs EXCEPT !.tvYRange = m.arg]
      [] m.op = "mapClick" ->
            [fs EXCEPT !.selectedCountry =
                SetSelectedCountry(fs.selectedCountry,
                                   MapClicked(fs.selectedCountry, m.arg))]
      [] m.op = "setFocusedActor" -> [fs EXCEPT !.focusedActor = m.arg]
      [] m.op = "ringClick" ->
            [fs EXCEPT !.ageBucket = RingClicked(fs.ageBucket, m.arg)]

\* The derived views of App and the age clock (useMemo) for a filter state and
\* the loaded datasets.
ViewsOf(fs) ==
    [heatmapData |-> HeatmapDataOf(genreByYear, fs.typeFilter, fs.yearRange),
     filteredGenreByYear |->
        FilteredGenreByYearOf(genreByYear, fs.typeFilter, fs.yearRange,
                              fs.selectedGenres),
     totalTitles |->
        SumCount(FilteredGenreByYearOf(genreByYear, fs.typeFilter, fs.yearRange,
                                       fs.selectedGenres)),
     filteredMovies |->
        FilteredMoviesOf(moviesRuntime, fs.yearRange, fs.selectedGenres,
                         fs.ratingGroups, fs.selectedCountry, fs.movieYRange),
     filteredTV |->
        FilteredTVOf(tvSeasons, fs.yearRange, fs.selectedGenres, fs.ratingGroups,
                     fs.selectedCountry, fs.tvYRange),
     filteredAge |->
        FilteredAgeOf(AgeRaw(contentAge), fs.yearRange, fs.typeFilter,
                      fs.selectedGenres, fs.ageBucket)]

\* Mutators the controls of the model issue, and a few more.
MutatorSeq == <<
    [op |-> "setTypeFilter", arg |-> "Movie"],
    [op |-> "setYearLo", arg |-> 2016],
    [op |-> "setYearHi", arg |-> 2015],
    [op |-> "onBrushYears", arg |-> NoRange],
    [op |-> "onBrushYears", arg |-> <<2015, 2015>>],
    [op |-> "onBrushYears", arg |-> <<2016, 2016>>],
    [op |-> "toggleGenre", arg |-> "Comedy"],
    [op |-> "toggleGenre", arg |-> "Drama"],
    [op |-> "toggleRatingGroup", arg |-> "Kids"],
    [op |-> "setMovieYRange", arg |-> NoRange],
    [op |-> "setMovieYRange", arg |-> <<0, 90>>],
    [op |-> "setTvYRange", arg |-> NoRange],
    [op |-> "setTvYRange", arg |-> <<1, 3>>],
    [op |-> "mapClick", arg |-> "France"],
    [op |-> "setFocusedActor", arg |-> "a1"],
    [op |-> "setFocusedActor", arg |-> Null],
    [op |-> "ringClick", arg |-> "0-1y"] >>
Mutators == {MutatorSeq[i] : i \in 1..Len(MutatorSeq)}

(***************************************************************************)
(* Specifications                                                          *)
(***************************************************************************)

Genres == {"Comedy", "Drama", "Other"}
Countries == {"France", "India"}
ActorIds == {"a1", "a2"}
SliderYears == {DefaultMinYear, 2015, 2016, DefaultMaxYear}
BucketKeys == {BUCKETS[i].key : i \in 1..Len(BUCKETS)}
MovieSels == {NoRange, <<90, 0>>, <<120, 90>>}
TVSels == {NoRange, <<1, 0>>, <<3, 1>>}
\* Brush selections on the heatmap's year strip, in pixels, and plot widths.
HeatmapSels == {NoRange, <<0, 100>>, <<300, 400>>}
HeatmapWidths == {400, 5000}
AllLoads == GenreLoads \cup MovieLoads \cup TVLoads \cup AgeLoads

\* The whole application.
Next ==
    \/ LoadResolve(AllLoads)
    \/ LoadReject
    \/ YearRangeEffect
    \/ SetTypeFilter(Range(TYPES))
    \/ SetYearLo(SliderYears)
    \/ SetYearHi(SliderYears)
    \/ ToggleRatingGroup(Range(RATINGS))
    \/ GenreCheckbox(Genres)
    \/ Reset
    \/ HeatmapGenreClick(Genres)
    \/ HeatmapBrushEnd(HeatmapSels, HeatmapWidths)
    \/ RingClick(BucketKeys)
    \/ ClockGenreClick(Genres)
    \/ MapClick(Countries)
    \/ TVBrushEnd(TVSels)
    \/ MovieBrushEnd(MovieSels)
    \/ ActorClick(ActorIds)
    \/ SetMinWeight(SliderMinWeight..SliderMaxWeight)
    \/ ActorResetView

Spec == Init /\ [][Next]_vars

\* Every control used, each with few of its values: one load, one genre, one
\* rating group, one country, one bucket, one brush range.
NextFilter ==
    \/ LoadResolve({BaseLoad})
    \/ LoadReject
    \/ YearRangeEffect
    \/ SetTypeFilter({"All", "Movie"})
    \/ SetYearLo({2015, 2016})
    \/ SetYearHi({2015, 2016})
    \/ ToggleRatingGroup({"Kids"})
    \/ GenreCheckbox({"Comedy"})
    \/ Reset
    \/ RingClick({"0-1y"})
    \/ MapClick({"France"})
    \/ TVBrushEnd({<<3, 1>>})
    \/ MovieBrushEnd({<<90, 0>>})
    \/ ActorClick({"a1"})

SpecFilter == Init /\ [][NextFilter]_vars

\* The genre-by-year controls: type, year sliders, genre picks, Reset.
NextGenre ==
    \/ LoadResolve(GenreLoads)
    \/ YearRangeEffect
    \/ SetTypeFilter(Range(TYPES))
    \/ SetYearLo({2015, 2016})
    \/ SetYearHi({2015, 2016})
    \/ GenreCheckbox(Genres)
    \/ HeatmapGenreClick(Genres)
    \/ Reset

SpecGenre == Init /\ [][NextGenre]_vars

\* The two toggled sets: rating groups and genres.
NextRatings ==
    \/ LoadResolve(MovieLoads \cup TVLoads)
    \/ YearRangeEffect
    \/ ToggleRatingGroup(Range(RATINGS))
    \/ GenreCheckbox(Genres)
    \/ Reset

SpecRatings == Init /\ [][NextRatings]_vars

\* The controls of the detail views: lower year slider, genre picks, country,
\* brushes.
NextDetail ==
    \/ LoadResolve(MovieLoads \cup TVLoads \cup AgeLoads)
    \/ YearRangeEffect
    \/ SetYearLo({2015, 2016})
    \/ GenreCheckbox(Genres)
    \/ MapClick({"France"})
    \/ MovieBrushEnd(MovieSels)
    \/ TVBrushEnd(TVSels)
    \/ Reset

SpecDetail == Init /\ [][NextDetail]_vars

\* The age clock: type, ring and genre clicks.
NextAge ==
    \/ LoadResolve(AgeLoads)
    \/ YearRangeEffect
    \/ SetTypeFilter(Range(TYPES))
    \/ RingClick(BucketKeys)
    \/ ClockGenreClick(Genres)
    \/ Reset

SpecAge == Init /\ [][NextAge]_vars

\* The age clock on records at the ends of the buckets.
NextBuckets ==
    \/ LoadResolve(BucketLoads)
    \/ YearRangeEffect
    \/ SetTypeFilter({"Movie"})
    \/ RingClick(BucketKeys)
    \/ Reset

SpecBuckets == Init /\ [][NextBuckets]_vars

\* Genre picks over the three datasets of titles.
NextGenrePick ==
    \/ LoadResolve(MovieLoads \cup TVLoads \cup AgeLoads)
    \/ YearRangeEffect
    \/ SetYearLo({2016})
    \/ GenreCheckbox(Genres)
    \/ ClockGenreClick(Genres)
    \/ MapClick({"France"})
    \/ Reset

SpecGenrePick == Init /\ [][NextGenrePick]_vars

\* The map: the lower year slider and country clicks, next to controls of filters
\* the map does not read.
NextCountry ==
    \/ LoadResolve(CountryLoads)
    \/ YearRangeEffect
    \/ SetTypeFilter({"Movie"})
    \/ SetYearLo({2016})
    \/ ToggleRatingGroup({"Kids"})
    \/ GenreCheckbox({"Comedy"})
    \/ MapClick(Countries)
    \/ TVBrushEnd({<<3, 1>>})
    \/ Reset

SpecCountry == Init /\ [][NextCountry]_vars

\* Everything that writes yearRange: the effect, the two sliders, the heatmap
\* brush and Reset.
NextYears ==
    \/ LoadResolve(GenreLoads)
    \/ YearRangeEffect
    \/ SetTypeFilter({"Movie"})
    \/ SetYearLo(SliderYears)
    \/ SetYearHi(SliderYears)
    \/ HeatmapBrushEnd(HeatmapSels, HeatmapWidths)
    \/ Reset

SpecYears == Init /\ [][NextYears]_vars

\* The heatmap: type, lower year slider and genre picks, next to controls of
\* filters the heatmap does not read.
NextHeatmap ==
    \/ LoadResolve(GenreLoads)
    \/ YearRangeEffect
    \/ SetTypeFilter({"Movie"})
    \/ SetYearLo({2016})
    \/ GenreCheckbox(Genres)
    \/ HeatmapGenreClick(Genres)
    \/ ToggleRatingGroup({"Kids"})
    \/ MapClick({"France"})
    \/ Reset

SpecHeatmap == Init /\ [][NextHeatmap]_vars

\* The actor galaxy: its slider, node clicks and Reset view, next to controls of
\* the global filters.
NextActor ==
    \/ LoadResolve(NetLoads)
    \/ YearRangeEffect
    \/ SetTypeFilter({"Movie"})
    \/ SetYearLo({2016})
    \/ GenreCheckbox({"Comedy"})
    \/ SetMinWeight({1, 3, 6})
    \/ ActorClick({"a1", "a3"})
    \/ ActorResetView
    \/ Reset

SpecActor == Init /\ [][NextActor]_vars

\* The load, request by request, next to two controls of the filter rail.
NextLoad ==
    \/ RequestSettle(Requests, {"ok", "failed"})
    \/ LoadContinue(AgeLoads)
    \/ LoadSetter(AgeLoads)
    \/ YearRangeEffect
    \/ SetTypeFilter({"Movie"})
    \/ Reset

SpecLoad == Init /\ [][NextLoad]_vars

\* The continuation of a resolved promise is a microtask: it runs once it can,
\* and runs to its end.
SpecLoadFair ==
    SpecLoad /\ WF_vars(LoadContinue(AgeLoads)) /\ WF_vars(LoadSetter(AgeLoads))

\* One control of every filter dimension, each with one value.
NextFrame ==
    \/ LoadResolve({BaseLoad})
    \/ YearRangeEffect
    \/ SetTypeFilter({"Movie"})
    \/ SetYearLo({2016})
    \/ SetYearHi({2015})
    \/ ToggleRatingGroup({"Kids"})
    \/ GenreCheckbox({"Comedy"})
    \/ HeatmapGenreClick({"Comedy"})
    \/ HeatmapBrushEnd({NoRange, <<300, 400>>}, {400})
    \/ RingClick({"0-1y"})
    \/ MapClick({"France"})
    \/ TVBrushEnd({<<3, 1>>})
    \/ MovieBrushEnd({<<90, 0>>})
    \/ ActorClick({"a1"})
    \/ Reset

SpecFrame == Init /\ [][NextFrame]_vars

\* One control for each filter dimension, on the base datasets.
NextCommute ==
    \/ LoadResolve({BaseLoad}) \/ YearRangeEffect \/ SetTypeFilter({"Movie"})
    \/ SetYearLo({2016}) \/ ToggleRatingGroup({"Kids"}) \/ GenreCheckbox({"Comedy"})
    \/ MapClick({"France"}) \/ TVBrushEnd({<<3, 1>>}) \/ Reset
SpecCommute == Init /\ [][NextCommute]_vars

(***************************************************************************)
(* Properties                                                              *)
(***************************************************************************)

\* The orderings of a finite set as arrays without repetition.
Perms(S) == {q \in [1..Cardinality(S) -> S] : Range(q) = S}

\* Argument values over which the views are compared.
YearRangeArgs == {<<DefaultMinYear, DefaultMaxYear>>, <<2015, 2015>>, <<2016, 2016>>,
                  <<2015, 2016>>, <<2016, 2015>>}
GenreSelArgs == {<<>>, <<"Comedy">>, <<"Drama">>, <<"Comedy", "Drama">>}
RatingArgs == {RATINGS, <<"Teen">>, <<"Adult", "Kids">>, <<>>}
CountryArgs == {Null, "France", "India"}
BrushArgs == {NoRange, <<0, 0>>, <<0, 90>>, <<0, 200>>, <<1, 3>>}

\* C1: the state right after the Reset handler is the documented default in every
\* dimension at once: type All, year range [minYear, maxYear], no genre, all four
\* rating groups, no brush, no country, no focused actor, no age bucket.
C1_ResetRestoresDefaults ==
    lastOp = "reset" =>
        /\ typeFilter = "All"
        /\ yearRange = <<minYear, maxYear>>
        /\ selectedGenres = <<>>
        /\ Len(ratingGroups) = 4
        /\ Range(ratingGroups) = {"Kids", "Teen", "Adult", "Other"}
        /\ movieYRange = NoRange
        /\ tvYRange = NoRange
        /\ selectedCountry = Null
        /\ focusedActor = Null
        /\ ageBucket = Null

\* Reset has run after an actor was focused: the galaxy still holds its own focus,
\* the application's has been cleared.
C1_Witness ==
    /\ lastOp = "reset"
    /\ ~loading
    /\ focus = "a1"
    /\ focusedActor = Null

\* C2: once the genre-year dataset is loaded, the genre-by-year view right after
\* Reset is the whole dataset, and the year range is the smallest and the largest
\* release_year of the dataset.
C2_ResetShowsWholeDataset ==
    (lastOp = "reset" /\ loadState = "resolved") =>
        /\ filteredGenreByYear = genreByYear
        /\ Len(genreByYear) > 0 =>
            /\ \A i \in 1..Len(genreByYear) :
                /\ yearRange[1] <= genreByYear[i].release_year
                /\ genreByYear[i].release_year <= yearRange[2]
            /\ \E i \in 1..Len(genreByYear) : genreByYear[i].release_year = yearRange[1]
            /\ \E i \in 1..Len(genreByYear) : genreByYear[i].release_year = yearRange[2]

C2_Witness ==
    /\ lastOp = "reset"
    /\ loadState = "resolved"
    /\ Len(genreByYear) = 2
    /\ genreByYear[1].release_year # genreByYear[2].release_year
    /\ genreByYear[1].genres # genreByYear[2].genres
    /\ Len(filteredGenreByYear) = 2

\* C3: a genre toggle, and a rating group toggle, adds the element when it is
\* absent and removes it when it is present; two toggles of the same element in
\* succession give back the set's membership.
C3_TogglesAreInvolutions ==
    /\ \A g \in Genres :
        LET once == GenreToggled(selectedGenres, g)
            twice == GenreToggled(once, g)
        IN  /\ Range(twice) = Range(selectedGenres)
            /\ Range(once) = IF g \in Range(selectedGenres)
                             THEN Range(selectedGenres) \ {g}
                             ELSE Range(selectedGenres) \cup {g}
    /\ \A r \in Range(RATINGS) :
        LET once == RatingToggled(ratingGroups, Includes(ratingGroups, r), r)
            twice == RatingToggled(once, Includes(once, r), r)
        IN  /\ Range(twice) = Range(ratingGroups)
            /\ Range(once) = IF r \in Range(ratingGroups)
                             THEN Range(ratingGroups) \ {r}
                             ELSE Range(ratingGroups) \cup {r}

\* Both sets have been toggled off and on again: the membership is back, the order
\* of the arrays is not.
C3_Witness ==
    /\ lastOp = "toggleRatingGroup"
    /\ Range(ratingGroups) = Range(RATINGS)
    /\ ratingGroups # RATINGS
    /\ selectedGenres = <<"Drama", "Comedy">>

\* C4: the genre-by-year view with no genre selected is the view with every genre
\* of the dataset selected, whatever the type filter and the year range.
C4_EmptyGenresIsAllGenres ==
    loadState = "resolved" =>
        \A sel \in Perms(allGenres) :
            FilteredGenreByYearOf(genreByYear, typeFilter, yearRange, <<>>)
                = FilteredGenreByYearOf(genreByYear, typeFilter, yearRange, sel)

C4_Witness ==
    /\ loadState = "resolved"
    /\ Len(selectedGenres) = 2
    /\ Range(selectedGenres) = allGenres
    /\ typeFilter = "Movie"
    /\ Len(genreByYear) = 2
    /\ filteredGenreByYear = genreByYear

\* The genres present in a dataset of titles.
PrimaryGenresOf(rows) ==
    {rows[i].primary_genre : i \in {j \in 1..Len(rows) : Truthy(rows[j].primary_genre)}}

HasGenre(d) == Truthy(d.primary_genre)

\* What the view with every present genre selected (sel) has to be, given the view
\* with none selected: the same records, less those that have no primary genre.
C5_AllGenresView(viewEmpty, sel) ==
    IF sel = <<>> THEN viewEmpty ELSE SelectSeq(viewEmpty, HasGenre)

\* C5 as stated: in the movie, TV and age-clock views, no genre selected gives the
\* view that every genre present in the dataset selected gives, also for datasets
\* with records that have no primary genre.
C5_EmptyGenresIsAllGenresOfTitles ==
    loadState = "resolved" =>
        /\ \A sel \in Perms(PrimaryGenresOf(moviesRuntime)) :
            FilteredMoviesOf(moviesRuntime, yearRange, <<>>, ratingGroups,
                             selectedCountry, movieYRange)
              = FilteredMoviesOf(moviesRuntime, yearRange, sel, ratingGroups,
                                 selectedCountry, movieYRange)
        /\ \A sel \in Perms(PrimaryGenresOf(tvSeasons)) :
            FilteredTVOf(tvSeasons, yearRange, <<>>, ratingGroups, selectedCountry,
                         tvYRange)
              = FilteredTVOf(tvSeasons, yearRange, sel, ratingGroups,
                             selectedCountry, tvYRange)
        /\ \A sel \in Perms(PrimaryGenresOf(AgeRaw(contentAge))) :
            FilteredAgeOf(AgeRaw(contentAge), yearRange, typeFilter, <<>>, ageBucket)
              = FilteredAgeOf(AgeRaw(contentAge), yearRange, typeFilter, sel,
                              ageBucket)

\* C5, amended: in the movie, TV and age-clock views, every genre present in the
\* dataset selected gives the view that no genre selected gives less the records
\* that have no primary genre (those pass the genre test only when no genre is
\* selected); and no selection of genres shows a record that the empty selection
\* does not show.
C5_EmptyGenresIsNoRestriction ==
    loadState = "resolved" =>
        /\ \A rg \in RatingArgs, br \in BrushArgs :
            LET none == FilteredMoviesOf(moviesRuntime, yearRange, <<>>, rg,
                                         selectedCountry, br)
            IN  /\ \A sel \in Perms(PrimaryGenresOf(moviesRuntime)) :
                    FilteredMoviesOf(moviesRuntime, yearRange, sel, rg,
                                     selectedCountry, br)
                      = C5_AllGenresView(none, sel)
                /\ \A sel \in GenreSelArgs :
                    Range(FilteredMoviesOf(moviesRuntime, yearRange, sel, rg,
                                           selectedCountry, br))
                      \subseteq Range(none)
        /\ \A rg \in RatingArgs, br \in BrushArgs :
            LET none == FilteredTVOf(tvSeasons, yearRange, <<>>, rg,
                                     selectedCountry, br)
            IN  /\ \A sel \in Perms(PrimaryGenresOf(tvSeasons)) :
                    FilteredTVOf(tvSeasons, yearRange, sel, rg, selectedCountry, br)
                      = C5_AllGenresView(none, sel)
                /\ \A sel \in GenreSelArgs :
                    Range(FilteredTVOf(tvSeasons, yearRange, sel, rg,
                                       selectedCountry, br))
                      \subseteq Range(none)
        /\ \A tf \in Range(TYPES), b \in {Null} \cup BucketKeys :
            LET none == FilteredAgeOf(AgeRaw(contentAge), yearRange, tf, <<>>, b)
            IN  /\ \A sel \in Perms(PrimaryGenresOf(AgeRaw(contentAge))) :
                    FilteredAgeOf(AgeRaw(contentAge), yearRange, tf, sel, b)
                      = C5_AllGenresView(none, sel)
                /\ \A sel \in GenreSelArgs :
                    Range(FilteredAgeOf(AgeRaw(contentAge), yearRange, tf, sel, b))
                      \subseteq Range(none)

\* Every genre of the movie dataset is selected, and a movie without a primary
\* genre, shown while no genre was selected, is not in the view.
C5_Witness ==
    /\ loadState = "resolved"
    /\ selectedGenres # <<>>
    /\ Range(selectedGenres) = PrimaryGenresOf(moviesRuntime)
    /\ Len(filteredMovies) = 1
    /\ Len(FilteredMoviesOf(moviesRuntime, yearRange, <<>>, ratingGroups,
                            selectedCountry, movieYRange)) = 2

\* C6: with no rating group active the movie and the TV views are empty, whatever
\* the dataset, the year range, the genres, the country and the brushes.
C6_NoRatingGroupNoTitle ==
    ratingGroups = <<>> =>
        /\ filteredMovies = <<>>
        /\ filteredTV = <<>>
        /\ \A yr \in YearRangeArgs, sel \in GenreSelArgs, c \in CountryArgs,
              b \in BrushArgs :
            /\ FilteredMoviesOf(moviesRuntime, yr, sel, ratingGroups, c, b) = <<>>
            /\ FilteredTVOf(tvSeasons, yr, sel, ratingGroups, c, b) = <<>>

\* The last rating group has been switched off over titles that every other filter
\* lets through.
C6_Witness ==
    /\ lastOp = "toggleRatingGroup"
    /\ ratingGroups = <<>>
    /\ Len(FilteredMoviesOf(moviesRuntime, yearRange, selectedGenres, RATINGS,
                            selectedCountry, movieYRange)) > 0
    /\ Len(FilteredTVOf(tvSeasons, yearRange, selectedGenres, RATINGS,
                        selectedCountry, tvYRange)) > 0

PresentRuntimes(rows) ==
    {rows[i].runtime_min[1] : i \in {j \in 1..Len(rows) : rows[j].runtime_min # NoNumber}}
PresentSeasons(rows) ==
    {rows[i].seasons[1] : i \in {j \in 1..Len(rows) : rows[j].seasons # NoNumber}}

\* C7: the movie view without a runtime brush is the view with the brush from the
\* smallest to the largest runtime present in the dataset; likewise the TV view and
\* the seasons brush.
C7_NoBrushIsFullRangeBrush ==
    loadState = "resolved" =>
        /\ PresentRuntimes(moviesRuntime) # {} =>
            FilteredMoviesOf(moviesRuntime, yearRange, selectedGenres, ratingGroups,
                             selectedCountry, NoRange)
              = FilteredMoviesOf(moviesRuntime, yearRange, selectedGenres,
                                 ratingGroups, selectedCountry,
                                 <<SetMin(PresentRuntimes(moviesRuntime)),
                                   SetMax(PresentRuntimes(moviesRuntime))>>)
        /\ PresentSeasons(tvSeasons) # {} =>
            FilteredTVOf(tvSeasons, yearRange, selectedGenres, ratingGroups,
                         selectedCountry, NoRange)
              = FilteredTVOf(tvSeasons, yearRange, selectedGenres, ratingGroups,
                             selectedCountry,
                             <<SetMin(PresentSeasons(tvSeasons)),
                               SetMax(PresentSeasons(tvSeasons))>>)

\* The runtime brush has been drawn over the whole observed range of a dataset
\* with two runtimes, and both movies are shown.
C7_Witness ==
    /\ lastOp = "movieBrushEnd"
    /\ PresentRuntimes(moviesRuntime) = {90, 120}
    /\ movieYRange = <<90, 120>>
    /\ Len(filteredMovies) = 2

\* C8: at most one age bucket is selected; a click on the ring of the selected
\* bucket clears the selection, a click on another ring replaces it, so that two
\* clicks on the same ring leave no bucket selected.
C8_BucketToggles ==
    /\ ageBucket \in {Null} \cup BucketKeys
    /\ \A b \in BucketKeys :
        /\ ageBucket = b => RingClicked(ageBucket, b) = Null
        /\ ageBucket # b =>
            /\ RingClicked(ageBucket, b) = b
            /\ RingClicked(RingClicked(ageBucket, b), b) = Null

\* A click on the ring of the selected bucket has cleared the selection.
C8_Witness ==
    /\ lastOp = "ringClick"
    /\ ageBucket = Null

\* The indexes of the genre-year records that pass the genre-by-year predicate.
C9_Passing ==
    {i \in 1..Len(genreByYear) :
        /\ typeFilter = "All" \/ genreByYear[i].type = typeFilter
        /\ genreByYear[i].release_year \in yearRange[1]..yearRange[2]
        /\ selectedGenres = <<>> \/ genreByYear[i].genres \in Range(selectedGenres)}

RECURSIVE C9_SumOfCounts(_)
C9_SumOfCounts(I) ==
    IF I = {} THEN 0
    ELSE LET i == CHOOSE j \in I : TRUE
         IN  genreByYear[i].count + C9_SumOfCounts(I \ {i})

C9_Example ==
    /\ Len(genreByYear) = 2
    /\ genreByYear[1].release_year = 2015 /\ genreByYear[2].release_year = 2015
    /\ genreByYear[1].genres = "Comedy" /\ genreByYear[2].genres = "Drama"
    /\ genreByYear[1].count = 10 /\ genreByYear[2].count = 5
    /\ typeFilter = "All"
    /\ yearRange = <<2015, 2015>>

\* C9: the total shown is the sum of the count fields of the genre-year records
\* that pass the type, year and genre tests; for the rows (2015, Comedy, 10) and
\* (2015, Drama, 5) it is 15 with no genre selected and 10 with Comedy selected.
C9_TotalIsSumOfCounts ==
    /\ totalTitles = C9_SumOfCounts(C9_Passing)
    /\ C9_Example =>
        /\ selectedGenres = <<>> => totalTitles = 15
        /\ selectedGenres = <<"Comedy">> => totalTitles = 10

C9_Witness ==
    /\ C9_Example
    /\ lastOp = "genreCheckbox"
    /\ selectedGenres = <<"Comedy">>
    /\ totalTitles = 10

\* C10: no movie without a runtime is in the movie view and no show without a
\* seasons value is in the TV view, whatever the other filters.
C10_AbsentMetricNeverShown ==
    /\ \A i \in 1..Len(filteredMovies) : filteredMovies[i].runtime_min # NoNumber
    /\ \A i \in 1..Len(filteredTV) : filteredTV[i].seasons # NoNumber
    /\ \A rg \in {<<"Teen">>, <<>>}, b \in {NoRange, <<0, 0>>, <<0, 200>>} :
        /\ \A d \in Range(FilteredMoviesOf(moviesRuntime, yearRange, selectedGenres,
                                           rg, selectedCountry, b)) :
            d.runtime_min # NoNumber
        /\ \A d \in Range(FilteredTVOf(tvSeasons, yearRange, selectedGenres, rg,
                                       selectedCountry, b)) :
            d.seasons # NoNumber

\* The runtime brush starts at 0 over a movie without a runtime that every other
\* test lets through.
C10_Witness ==
    /\ lastOp = "movieBrushEnd"
    /\ movieYRange = <<0, 90>>
    /\ \E i \in 1..Len(moviesRuntime) :
        /\ moviesRuntime[i].runtime_min = NoNumber
        /\ YearOk(moviesRuntime[i], yearRange)
        /\ PrimaryGenreOk(moviesRuntime[i], selectedGenres)
        /\ RatingOk(moviesRuntime[i], ratingGroups)
        /\ CountryOk(moviesRuntime[i], selectedCountry)

\* C11: the country setter replaces the value: set to c and to c again, the
\* country is c, and it is cleared only when it is given null; the map deselects
\* by passing null itself, exactly when the clicked country is the selected one.
C11_CountryDirectReplace ==
    /\ \A c \in CountryArgs :
        /\ SetSelectedCountry(SetSelectedCountry(selectedCountry, c), c) = c
        /\ SetSelectedCountry(selectedCountry, c) = Null <=> c = Null
    /\ \A name \in Countries :
        /\ MapClicked(selectedCountry, name) = Null <=> name = selectedCountry
        /\ MapClicked(selectedCountry, name) # Null =>
               MapClicked(selectedCountry, name) = name
    /\ lastOp = "mapClick" => selectedCountry \in {Null} \cup Countries

\* A click on the selected country has cleared the selection.
C11_Witness ==
    /\ lastOp = "mapClick"
    /\ selectedCountry = Null
    /\ ~loading

\* The sum of count over the records of countryByYear whose index is in I.
RECURSIVE C16_SumOfCounts(_)
C16_SumOfCounts(I) ==
    IF I = {} THEN 0
    ELSE LET i == CHOOSE j \in I : TRUE
         IN  countryByYear[i].count + C16_SumOfCounts(I \ {i})

\* C16: the total the map shows for a country is the sum of count over the
\* country's records with release_year within yearRange, and a step that leaves
\* the country records and yearRange alone, whatever else it changes, leaves the
\* totals alone.
C16_TotalsReadYearRangeOnly ==
    [][ /\ \A name \in Countries :
            CountryTotal(totals, name)
              = C16_SumOfCounts({i \in 1..Len(countryByYear) :
                    /\ countryByYear[i].country = name
                    /\ countryByYear[i].release_year >= yearRange[1]
                    /\ countryByYear[i].release_year <= yearRange[2]})
        /\ DOMAIN totals =
              {countryByYear[i].country : i \in {j \in 1..Len(countryByYear) :
                    /\ countryByYear[j].release_year >= yearRange[1]
                    /\ countryByYear[j].release_year <= yearRange[2]}}
        /\ (countryByYear' = countryByYear /\ yearRange' = yearRange) =>
              totals' = totals ]_vars

\* Two records of one country are summed (3 + 2) while type, genre, rating group,
\* country and brush are all set.
C16_Witness ==
    /\ ~loading
    /\ CountryTotal(totals, "France") = 5
    /\ Len(countryByYear) = 2
    /\ typeFilter = "Movie"
    /\ selectedGenres # <<>>
    /\ ratingGroups # RATINGS
    /\ selectedCountry = "India"
    /\ tvYRange # NoRange

\* C12: in every reachable state the lower end of yearRange is at most its upper
\* end.
C12_YearRangeOrdered == yearRange[1] <= yearRange[2]

\* C13: the effect that follows the load of a non-empty genre-year dataset sets
\* yearRange to [minYear, maxYear], the least and the greatest release year; from
\* then on both ends of yearRange are within [minYear, maxYear].
C13_YearRangeWithinData ==
    (loadState = "resolved" /\ Len(genreByYear) > 0 /\ ~yearEffectPending) =>
        LET ys == {genreByYear[i].release_year : i \in 1..Len(genreByYear)}
        IN  /\ minYear \in ys /\ \A y \in ys : minYear <= y
            /\ maxYear \in ys /\ \A y \in ys : maxYear >= y
            /\ lastOp = "yearEffect" => yearRange = <<minYear, maxYear>>
            /\ yearRange[1] >= minYear /\ yearRange[1] <= maxYear
            /\ yearRange[2] >= minYear /\ yearRange[2] <= maxYear

\* A heatmap brush has set yearRange on a dataset of two years.
C13_Witness ==
    /\ loadState = "resolved"
    /\ ~yearEffectPending
    /\ minYear < maxYear
    /\ lastOp = "heatmapBrushEnd"
    /\ yearRange # <<minYear, maxYear>>

\* The ends of the brush selections compared: the axis starts at 0 and grows
\* upwards, so the first pixel of a selection is the larger value.
C14_Sels == {NoRange} \cup {<<a, b>> : a \in 0..3, b \in 0..3}

C14_AbsentOrOrdered(r) == r = NoRange \/ (Len(r) = 2 /\ 0 <= r[1] /\ r[1] <= r[2])

\* C14: each numeric brush filter is absent or a range [lo, hi] with
\* 0 <= lo <= hi; a brush gesture that ends with an empty selection gives absent,
\* any other gives an ordered range.
C14_BrushAbsentOrClosedRange ==
    /\ C14_AbsentOrOrdered(tvYRange)
    /\ C14_AbsentOrOrdered(movieYRange)
    /\ \A sel \in C14_Sels :
        /\ BrushEmits(sel) = NoRange <=> sel = NoRange
        /\ C14_AbsentOrOrdered(BrushEmits(sel))

\* A brush gesture on the TV chart has ended with an empty selection and the TV
\* brush is absent, while the movie brush holds a range.
C14_Witness ==
    /\ lastOp = "tvBrushEnd"
    /\ tvYRange = NoRange
    /\ movieYRange # NoRange

\* C15: the rows given to the heatmap are the genre-year records that pass the
\* type and the year test, whatever genres are selected; a step that leaves the
\* records, typeFilter and yearRange alone leaves the rows alone; and every genre
\* of these rows can be toggled on the heatmap.
C15_HeatmapReadsTypeAndYearsOnly ==
    [][ /\ (genreByYear' = genreByYear /\ typeFilter' = typeFilter
             /\ yearRange' = yearRange) => heatmapData' = heatmapData
        /\ AllGenresOf(heatmapData) =
              {genreByYear[i].genres : i \in {j \in 1..Len(genreByYear) :
                    /\ typeFilter = "All" \/ genreByYear[j].type = typeFilter
                    /\ genreByYear[j].release_year >= yearRange[1]
                    /\ genreByYear[j].release_year <= yearRange[2]}}
        /\ ~loading =>
              \A g \in AllGenresOf(heatmapData) : ENABLED HeatmapGenreClick({g}) ]_vars

\* One of two genres is selected and the heatmap still has the rows of the other.
C15_Witness ==
    /\ ~loading
    /\ Len(selectedGenres) = 1
    /\ Cardinality(AllGenresOf(heatmapData)) = 2
    /\ Len(filteredGenreByYear) < Len(heatmapData)
    /\ lastOp = "heatmapGenreClick"

C18_NoDataDistinctFromNoMatch ==
    (~loading /\ hasData /\ Len(filteredAge) = 0) =>
        clockShows # ClockShowsOf([isNull |-> TRUE, rows |-> <<>>], yearRange,
                                  typeFilter, selectedGenres, ageBucket)

\* C19: once a required request has failed, the application stays loading, no
\* dataset is ever stored, no settled request is started again, and the filter
\* rail still takes input.
C19_FailedLoadStaysLoading ==
    [][ (\E i \in Required : requests[i] = "failed") =>
            /\ loading /\ loading'
            /\ loadState = "rejected" /\ loadState' = "rejected"
            /\ genreByYear' = <<>> /\ ratingDist' = <<>> /\ moviesRuntime' = <<>>
            /\ tvSeasons' = <<>> /\ countryByYear' = <<>>
            /\ actorNodes' = <<>> /\ actorEdges' = <<>>
            /\ contentAge' = [isNull |-> TRUE, rows |-> <<>>]
            /\ \A i \in Requests : requests[i] # "pending" => requests'[i] = requests[i]
            /\ ENABLED SetTypeFilter({"Movie"})
            /\ ENABLED Reset ]_vars

\* After the failure of a required request, with other requests delivered, the
\* type filter has been set.
C19_Witness ==
    /\ requests["m"] = "failed"
    /\ requests["g"] = "ok"
    /\ requests["ca"] = "ok"
    /\ \A i \in Requests : requests[i] # "pending"
    /\ loading
    /\ typeFilter = "Movie"
    /\ lastOp = "setTypeFilter"

\* C20: whenever all seven requests are settled, in whatever order, with the six
\* required ones delivered, loading becomes false with the six required datasets
\* stored; and once loading is false the age dataset is null exactly when its
\* request failed.
C20_AgeFailureDoesNotBlockLoad ==
    /\ ((\A i \in Requests : requests[i] # "pending")
         /\ (\A i \in Required : requests[i] = "ok"))
          ~> (/\ ~loading
              /\ genreByYear = BaseGenreByYear /\ ratingDist = BaseRatingDist
              /\ moviesRuntime = BaseMovies /\ tvSeasons = BaseTV
              /\ countryByYear = BaseCountry
              /\ actorNodes = BaseNodes /\ actorEdges = BaseEdges)
    /\ [](~loading => (contentAge.isNull <=> requests["ca"] = "failed"))
    /\ []((\A i \in Required : requests[i] = "ok") => loadState # "rejected")

\* The load has completed although the content-age request failed.
C20_Witness ==
    /\ lastOp = "load"
    /\ ~loading
    /\ requests["ca"] = "failed"
    /\ contentAge.isNull
    /\ Len(genreByYear) > 0

\* The six conditions of the detail views, on the fields of a record; metric is
\* the record's runtime or seasons.
C21_InView(d, metric, yr, sel, rg, country, brush) ==
    /\ metric # NoNumber
    /\ yr[1] <= d.release_year /\ d.release_year <= yr[2]
    /\ sel = <<>> \/ (d.primary_genre # Null /\ d.primary_genre \in Range(sel))
    /\ d.rating_group \in Range(rg)
    /\ country = Null \/ d.primary_country = country
    /\ brush = NoRange \/ (brush[1] <= metric[1] /\ metric[1] <= brush[2])

\* C21: the movie view (the TV view) holds exactly the records whose runtime
\* (seasons) is present, whose year is in yearRange, whose primary genre is
\* selected or no genre is, whose rating group is active, whose primary country
\* is the selected one or none is, and whose metric is in the view's brush or
\* there is none; in the order of the dataset.
C21_DetailViewsAreTheSixConditions ==
    loadState = "resolved" =>
        \A rg \in RatingArgs, br \in BrushArgs :
            /\ FilteredMoviesOf(moviesRuntime, yearRange, selectedGenres, rg,
                                selectedCountry, br)
                 = SelectSeq(moviesRuntime,
                     LAMBDA d : C21_InView(d, d.runtime_min, yearRange, selectedGenres,
                                           rg, selectedCountry, br))
            /\ FilteredTVOf(tvSeasons, yearRange, selectedGenres, rg,
                            selectedCountry, br)
                 = SelectSeq(tvSeasons,
                     LAMBDA d : C21_InView(d, d.seasons, yearRange, selectedGenres,
                                           rg, selectedCountry, br))

\* With France selected and a genre picked, one of two movies is in the view.
C21_Witness ==
    /\ loadState = "resolved"
    /\ selectedCountry = "France"
    /\ Len(selectedGenres) = 1
    /\ Len(moviesRuntime) = 2
    /\ Len(filteredMovies) = 1
    /\ \E i \in 1..2 : moviesRuntime[i].primary_country = Null

\* The conditions of the age-clock view on the fields of a record, but for the
\* bucket.
C22_InViewButBucket(r, yr, tf, sel) ==
    /\ r.age_years >= 0
    /\ yr[1] <= r.release_year /\ r.release_year <= yr[2]
    /\ tf = "All" \/ r.type = tf
    /\ sel = <<>> \/ (r.primary_genre # Null /\ r.primary_genre \in Range(sel))

\* The bucket with the key given, as the set of its ages: lo up to hi, with hi
\* itself when closed is TRUE.
C22_BucketAges(key, closed) ==
    LET b == CHOOSE x \in Range(BUCKETS) : x.key = key
    IN  IF closed THEN b.lo .. b.hi ELSE b.lo .. (b.hi - 1)

C22_ViewIs(closed) ==
    loadState = "resolved" =>
        \A tf \in Range(TYPES), bucket \in {Null} \cup BucketKeys :
            LET view == FilteredAgeOf(AgeRaw(contentAge), yearRange, tf,
                                      selectedGenres, bucket)
            IN  /\ view = SelectSeq(AgeRaw(contentAge),
                     LAMBDA r : /\ C22_InViewButBucket(r, yearRange, tf, selectedGenres)
                                /\ bucket = Null
                                     \/ r.age_years \in C22_BucketAges(bucket, closed))
                /\ \A i \in 1..Len(view) : view[i].age_years >= 0

\* C22 as stated: the age-clock view holds exactly the records with age_years >= 0,
\* year in yearRange, type matching, genre selected or none, and age_years in the
\* selected bucket taken as the half-open range [lo, hi), or no bucket selected.
C22_AgeViewWithHalfOpenBuckets == C22_ViewIs(FALSE)

\* C22, amended: the same with the selected bucket taken as the closed range
\* [lo, hi]: a record whose age_years is the bucket's hi is in the view.
C22_AgeViewWithClosedBuckets == C22_ViewIs(TRUE)

\* With the bucket 0-1y selected, a record of age 1, the bucket's upper end, is
\* in the view.
C22_Witness ==
    /\ loadState = "resolved"
    /\ ageBucket = "0-1y"
    /\ lastOp = "ringClick"
    /\ Len(filteredAge) = 1
    /\ filteredAge[1].age_years = 1

\* C24: a step of a control changes its own filter dimension only: the type
\* buttons typeFilter, a year slider its own end of yearRange, the genre and the
\* rating toggles their set, a brush callback its own brush, the map click
\* selectedCountry, the ring click ageBucket; none changes the datasets; and a
\* heatmap brush that ends with an empty selection leaves yearRange as it is.
C24_ControlsChangeOwnDimensionOnly ==
    [][ /\ lastOp' = "setTypeFilter" =>
              UNCHANGED <<dataVars, yearRange, selectedGenres, ratingGroups, movieYRange,
                          tvYRange, selectedCountry, focusedActor, ageBucket>>
        /\ lastOp' = "setYearLo" =>
              /\ yearRange'[2] = yearRange[2]
              /\ UNCHANGED <<dataVars, typeFilter, selectedGenres, ratingGroups,
                             movieYRange, tvYRange, selectedCountry, focusedActor,
                             ageBucket>>
        /\ lastOp' = "setYearHi" =>
              /\ yearRange'[1] = yearRange[1]
              /\ UNCHANGED <<dataVars, typeFilter, selectedGenres, ratingGroups,
                             movieYRange, tvYRange, selectedCountry, focusedActor,
                             ageBucket>>
        /\ lastOp' \in {"genreCheckbox", "heatmapGenreClick", "clockGenreClick"} =>
              UNCHANGED <<dataVars, typeFilter, yearRange, ratingGroups, movieYRange,
                          tvYRange, selectedCountry, focusedActor, ageBucket>>
        /\ lastOp' = "toggleRatingGroup" =>
              UNCHANGED <<dataVars, typeFilter, yearRange, selectedGenres, movieYRange,
                          tvYRange, selectedCountry, focusedActor, ageBucket>>
        /\ lastOp' = "movieBrushEnd" =>
              UNCHANGED <<dataVars, typeFilter, yearRange, selectedGenres, ratingGroups,
                          tvYRange, selectedCountry, focusedActor, ageBucket>>
        /\ lastOp' = "tvBrushEnd" =>
              UNCHANGED <<dataVars, typeFilter, yearRange, selectedGenres, ratingGroups,
                          movieYRange, selectedCountry, focusedActor, ageBucket>>
        /\ lastOp' = "mapClick" =>
              UNCHANGED <<dataVars, typeFilter, yearRange, selectedGenres, ratingGroups,
                          movieYRange, tvYRange, focusedActor, ageBucket>>
        /\ lastOp' = "ringClick" =>
              UNCHANGED <<dataVars, typeFilter, yearRange, selectedGenres, ratingGroups,
                          movieYRange, tvYRange, selectedCountry, focusedActor>>
        /\ lastOp' = "heatmapBrushEnd" =>
              UNCHANGED <<dataVars, typeFilter, selectedGenres, ratingGroups,
                          movieYRange, tvYRange, selectedCountry, focusedActor,
                          ageBucket>>
        /\ Len(heatmapData) > 0 =>
              \A w \in HeatmapWidths :
                  OnBrushYears(yearRange,
                      HeatmapBrushEmits(NoRange, w, YearsOf(heatmapData))) = yearRange
      ]_vars

\* A heatmap brush has ended while type, genres, rating groups, country, bucket
\* and both brushes were set.
C24_Witness ==
    /\ lastOp = "heatmapBrushEnd"
    /\ typeFilter = "Movie"
    /\ selectedGenres # <<>>
    /\ ratingGroups # RATINGS
    /\ selectedCountry = "France"
    /\ ageBucket # Null
    /\ movieYRange # NoRange
    /\ tvYRange # NoRange

\* The steps made by a control or a chart callback.
C23_ControlOps ==
    {"setTypeFilter", "setYearLo", "setYearHi", "toggleRatingGroup", "genreCheckbox",
     "heatmapGenreClick", "heatmapBrushEnd", "ringClick", "clockGenreClick",
     "mapClick", "tvBrushEnd", "movieBrushEnd", "actorClick"}

\* Two mutators of different dimensions give the same filter state and the
\* same views in either order, and the views kept are the views derived anew.
C23_PureAndCommuting ==
    /\ ViewsOf(FilterState) =
          [heatmapData |-> heatmapData, filteredGenreByYear |-> filteredGenreByYear,
           totalTitles |-> totalTitles, filteredMovies |-> filteredMovies,
           filteredTV |-> filteredTV, filteredAge |-> filteredAge]
    /\ \A i, j \in 1..Len(MutatorSeq) :
          (i < j /\ Dim(MutatorSeq[i]) # Dim(MutatorSeq[j])) =>
              LET a == Apply(Apply(FilterState, MutatorSeq[i]), MutatorSeq[j])
                  b == Apply(Apply(FilterState, MutatorSeq[j]), MutatorSeq[i])
              IN  a = b /\ ViewsOf(a) = ViewsOf(b)

\* C23: the views are a function of the filter state and the datasets: every step
\* of a control is one mutator applied to the filter state; the views kept in
\* every state are those derived anew of its filter state; and two mutators of
\* different dimensions give the same filter state, hence the same views, in
\* either order.
C23_MutatorsOfDifferentDimensionsCommute ==
    /\ []C23_PureAndCommuting
    /\ [][lastOp' \in C23_ControlOps =>
             \E m \in Mutators : FilterState' = Apply(FilterState, m)]_vars

\* After the type was set while a genre was selected: the two mutators, in this
\* order, have given a filter state with both.
C23_Witness ==
    /\ ~loading
    /\ lastOp = "setTypeFilter"
    /\ FilterState.typeFilter = "Movie"
    /\ FilterState.selectedGenres = <<"Comedy">>
    /\ Len(ViewsOf(FilterState).filteredGenreByYear) = 1

\* C25: a heatmap brush only narrows the year range: when yearRange is ordered
\* and the heatmap has rows, the step of a brush end leaves a yearRange that is
\* ordered, within the old one, and, when the brush gave a range, within the
\* least and the greatest year of the heatmap's rows.
C25_HeatmapBrushOnlyNarrows ==
    [][(lastOp' = "heatmapBrushEnd" /\ yearRange[1] <= yearRange[2]
            /\ Len(heatmapData) > 0) =>
          LET ys == {heatmapData[i].release_year : i \in 1..Len(heatmapData)}
          IN  /\ yearRange'[1] <= yearRange'[2]
              /\ yearRange[1] <= yearRange'[1]
              /\ yearRange'[2] <= yearRange[2]
              /\ yearRange' # yearRange =>
                    /\ \E y \in ys : y <= yearRange'[1]
                    /\ \E y \in ys : yearRange'[2] <= y]_vars

\* A brush on the heatmap of a dataset of two years has narrowed the range to
\* the last year, while the type filter hides nothing.
C25_Witness ==
    /\ lastOp = "heatmapBrushEnd"
    /\ typeFilter = "All"
    /\ minYear < maxYear
    /\ yearRange = <<maxYear, maxYear>>

\* C26: in every reachable state the actor chart's own focus equals the
\* application's focusedActor, and the step of a click on the focused actor
\* leaves both absent.
C26_FocusInSync ==
    /\ [](focus = focusedActor)
    /\ [][(lastOp' = "actorClick" /\ focus # Null /\ focus' # focus
             /\ focus \in {KeepN(actorNodes, actorEdges, minWeight)[i].id :
                              i \in 1..Len(KeepN(actorNodes, actorEdges, minWeight))}
             /\ focus' = Null)
            => focusedActor' = Null]_vars

\* C27: in every reachable state selectedGenres and ratingGroups hold no entry
\* twice, and every entry of ratingGroups is one of Kids, Teen, Adult, Other.
C27_NoDuplicateSelections ==
    /\ \A i, j \in 1..Len(selectedGenres) :
            i # j => selectedGenres[i] # selectedGenres[j]
    /\ \A i, j \in 1..Len(ratingGroups) : i # j => ratingGroups[i] # ratingGroups[j]
    /\ Range(ratingGroups) \subseteq {"Kids", "Teen", "Adult", "Other"}

\* A rating group was switched off and on again, so that the four groups are
\* held in another order than at the start, next to two selected genres.
C27_Witness ==
    /\ lastOp = "toggleRatingGroup"
    /\ Len(ratingGroups) = 4
    /\ ratingGroups # RATINGS
    /\ Len(selectedGenres) = 2

\* C28: once the charts are shown, every record that passes the clock's filter
\* lies in exactly one of the five buckets, and the lookup of the pivot finds a
\* bucket for it, with or without a selected bucket.
C28_EveryFilteredRecordHasOneBucket ==
    ~loading =>
        \A i \in 1..Len(filteredAge) :
            /\ Cardinality({k \in 1..Len(BUCKETS) :
                    /\ filteredAge[i].age_years >= BUCKETS[k].lo
                    /\ filteredAge[i].age_years <= BUCKETS[k].hi}) = 1
            /\ BucketFind(filteredAge[i].age_years) # 0
            /\ ~seriesThrows

\* C29: a step that changes only filter dimensions outside a view's predicate
\* leaves the view as it is: the movie and the TV view when only typeFilter,
\* ageBucket or focusedActor (or the other view's brush) change; the genre-by-year
\* view and its total when only ratingGroups, selectedCountry, the two brushes,
\* ageBucket or focusedActor change.
C29_ViewsIgnoreOtherDimensions ==
    [][ /\ UNCHANGED <<moviesRuntime, yearRange, selectedGenres, ratingGroups,
                       selectedCountry, movieYRange>>
            => filteredMovies' = filteredMovies
        /\ UNCHANGED <<tvSeasons, yearRange, selectedGenres, ratingGroups,
                       selectedCountry, tvYRange>>
            => filteredTV' = filteredTV
        /\ UNCHANGED <<genreByYear, typeFilter, yearRange, selectedGenres>>
            => /\ filteredGenreByYear' = filteredGenreByYear
               /\ totalTitles' = totalTitles
        /\ lastOp' \in {"setTypeFilter", "ringClick", "actorClick"}
            => /\ filteredMovies' = filteredMovies
               /\ filteredTV' = filteredTV
        /\ lastOp' \in {"toggleRatingGroup", "mapClick", "tvBrushEnd", "movieBrushEnd",
                         "ringClick", "actorClick"}
            => /\ filteredGenreByYear' = filteredGenreByYear
               /\ totalTitles' = totalTitles
        /\ lastOp' = "movieBrushEnd" => filteredTV' = filteredTV
        /\ lastOp' = "tvBrushEnd" => filteredMovies' = filteredMovies ]_vars

\* The type filter was set to Movie and the TV view still has its record; a
\* rating group is switched off, which the genre-by-year view does not read.
C29_Witness ==
    /\ lastOp = "setTypeFilter"
    /\ typeFilter = "Movie"
    /\ Len(filteredTV) > 0
    /\ ~Includes(ratingGroups, "Kids")
    /\ Len(filteredGenreByYear) > 0

\* C30: in every reachable state in which loading is false, all seven requests
\* are settled, the six required ones delivered, the six required datasets hold
\* the fetched documents, and contentAge holds the fetched rows, or null exactly
\* when its request failed.
C30_NotLoadingMeansAllDatasetsSet ==
    ~loading =>
        /\ \A i \in Requests : requests[i] # "pending"
        /\ \A i \in Required : requests[i] = "ok"
        /\ genreByYear = BaseGenreByYear /\ ratingDist = BaseRatingDist
        /\ moviesRuntime = BaseMovies /\ tvSeasons = BaseTV
        /\ countryByYear = BaseCountry
        /\ actorNodes = BaseNodes /\ actorEdges = BaseEdges
        /\ contentAge.isNull <=> requests["ca"] = "failed"
        /\ contentAge \in {l.ca : l \in AgeLoads}

\* The setters have run one by one, the last has cleared loading, and the age
\* dataset holds two fetched rows.
C30_Witness ==
    /\ ~loading
    /\ lastOp = "loadSetter"
    /\ requests["ca"] = "ok"
    /\ Len(contentAge.rows) = 2

====
